---- MODULE Spec2Model ----
(***************************************************************************)
(* Session run-loop of packages/ralph: the SessionManager registry, the    *)
(* start/pause/stop/set_prd calls, the background run_loop task and the    *)
(* StreamParser that decides the result of one iteration.                  *)
(*                                                                         *)
(* Every step of the model is one access to shared state (one acquisition  *)
(* of the sessions lock, one write of prd.json, one broadcast), because    *)
(* the code releases the lock between any two of them and other tasks run  *)
(* in between.                                                             *)
(***************************************************************************)
EXTENDS Integers, Sequences, FiniteSets, TLC

\* ------------------------------------------------------------------ bounds
MaxIterations == 2      \* largest max_iterations a session is created with
MaxStories == 2         \* longest story list passed to set_prd
MaxPriority == 2        \* priorities are drawn from 1..MaxPriority
MaxLoops == 1           \* run_loop tasks spawned over the life of the session
MaxCalls == 1           \* manager calls in flight at the same time
MaxSubscribers == 1     \* receivers handed out by subscribe_to_activity
MaxParse == 4           \* parse_activity calls on one parser, any kinds
MaxShells == 5          \* parse_activity calls on one parser, Shell only
MaxWrites == 6          \* parse_activity calls on one parser, Write only
MaxBroadcasts == 3      \* broadcast_activity calls, over all sessions
MaxReceivers == 3       \* subscribe_to_activity calls, over all sessions
MaxMixed == 8           \* parse_activity calls on one parser, Shell and Write
MaxTicks == 3           \* steps of the clock during one run of the runner
MaxLines == 2           \* lines the subprocess writes in one iteration
MaxWide == 4            \* parse_activity calls on one parser, large byte counts
CarryStories == 2       \* stories and max_iterations of the session of SpecCarry

\* ------------------------------------------------------- program constants
gutter_fail_count == 3
gutter_thrash_count == 5
ShellEstimate == 100
ThrashWindow == 600
\* seconds the runner waits for the subprocess to exit
IterationTimeout == 600
\* retries spawn_with_retry is called with, and its first delay in ms
max_retries == 3
BackoffBase == 100
\* significant bits of an f32
F32Mantissa == 24
\* width of the TokenUsage counters
U32Bits == 32
\* SessionConfig::default()
WarnThreshold == 70000
RotateThreshold == 80000
\* bytes of one Read or Write activity: two of them reach rotate_threshold
ActivityBytes == RotateThreshold \div 2

\* ------------------------------------------------------------ input values
SessionId == "s1"
\* the ids of the sessions the callers know of
SessionIds == {SessionId, "s2"}
\* project paths: a git repository, one in which .ralph cannot be created,
\* a directory without .git, and a path that does not exist
ProjectPath == "/work/repo"
ProjectPaths == {ProjectPath, "/work/readonly", "/work/plain", "/work/missing"}
PathExists(project_path) == project_path # "/work/missing"
HasGitEntry(project_path) == project_path \in {ProjectPath, "/work/readonly"}
CanCreateDir(project_path) == project_path = ProjectPath
Command == "npm test"
Path == "src/lib.rs"
Commands == {Command, "cargo build"}
Paths == {Path, "README.md"}
ExitCodes == {0, 1}
StoryId(i) == <<"US-001", "US-002", "US-003", "US-004", "US-005">>[i]

\* ------------------------------------------------------------------- types
\* SessionStatus: the variant name and its payload (empty for unit variants)
Idle == [tag |-> "Idle", arg |-> <<>>]
Running(story_id) == [tag |-> "Running", arg |-> <<story_id>>]
Paused == [tag |-> "Paused", arg |-> <<>>]
WaitingForRotation == [tag |-> "WaitingForRotation", arg |-> <<>>]
Gutter(reason) == [tag |-> "Gutter", arg |-> reason]
Complete == [tag |-> "Complete", arg |-> <<>>]
Failed(error) == [tag |-> "Failed", arg |-> <<error>>]

\* Option<Prd>: None, or Some(prd) with the ordered stories
NoPrd == [some |-> FALSE, stories |-> <<>>]
SomePrd(stories) == [some |-> TRUE, stories |-> stories]

Story(id, priority, passes) == [id |-> id, priority |-> priority, passes |-> passes]

\* TokenUsage::default()
TokenUsageDefault == [total |-> 0, read |-> 0, write |-> 0, assistant |-> 0, shell |-> 0]

\* SessionConfig::default() with the given max_iterations; branch_name is
\* an Option, <<>> for None
SessionConfig(max_iterations) ==
    [prd_model |-> "opus-4.5-thinking",
     execution_model |-> "opus-4.5-thinking",
     max_iterations |-> max_iterations,
     warn_threshold |-> WarnThreshold,
     rotate_threshold |-> RotateThreshold,
     branch_name |-> <<>>,
     open_pr |-> FALSE]

\* ActivityKind values the classifier produces
ReadKind == [type |-> "read", name |-> Path, bytes |-> ActivityBytes, exit_code |-> 0]
WriteKind == [type |-> "write", name |-> Path, bytes |-> ActivityBytes, exit_code |-> 0]
ShellKind(code) == [type |-> "shell", name |-> Command, bytes |-> 0, exit_code |-> code]
ErrorKind == [type |-> "error", name |-> "", bytes |-> 0, exit_code |-> 0]
\* the same with any path, byte count, command and exit code
Read(path, bytes) == [type |-> "read", name |-> path, bytes |-> bytes, exit_code |-> 0]
Write(path, bytes) == [type |-> "write", name |-> path, bytes |-> bytes, exit_code |-> 0]
Shell(command, exit_code) ==
    [type |-> "shell", name |-> command, bytes |-> 0, exit_code |-> exit_code]
\* TokenUpdate(usage) with usage.total = bytes, and Signal(Signal::Complete)
TokenUpdateKind == [type |-> "token_update", name |-> "", bytes |-> ActivityBytes, exit_code |-> 0]
SignalKind == [type |-> "signal", name |-> "Complete", bytes |-> 0, exit_code |-> 0]
ActivityKinds == {ReadKind, WriteKind, ShellKind(0), ShellKind(1)}

\* Signal values, and the None of an Option<Signal>
NoSignal == [tag |-> "None", arg |-> <<>>]
SignalWarn == [tag |-> "Warn", arg |-> <<>>]
SignalRotate == [tag |-> "Rotate", arg |-> <<>>]
SignalComplete == [tag |-> "Complete", arg |-> <<>>]
SignalStoryComplete(story_id) == [tag |-> "StoryComplete", arg |-> <<story_id>>]
SignalGutter(reason) == [tag |-> "Gutter", arg |-> reason]
\* the two reasons parse_activity formats
CommandFailedReason(command, count) == <<"Command failed", command, count>>
FileThrashingReason(path, count) == <<"File thrashing", path, count>>

\* --------------------------------------------------------------------- f32
\* An f32 is the value m * 2^e with 2^23 <= m < 2^24 (24 significant bits),
\* or zero.  Every operation returns the f32 nearest to the exact result,
\* ties to the even mantissa.
F32(m, e) == [m |-> m, e |-> e]

\* q, the floor of n / d with remainder r, rounded to nearest, ties to even
RoundHalfEven(q, r, d) ==
    q + (IF 2 * r > d \/ (2 * r = d /\ q % 2 = 1) THEN 1 ELSE 0)

RECURSIVE ShiftUp(_, _)
ShiftUp(m, e) == IF m >= 2^(F32Mantissa - 1) THEN F32(m, e) ELSE ShiftUp(2 * m, e - 1)

\* the number of bits m has beyond the 24 of a mantissa
RECURSIVE Excess(_)
Excess(m) == IF m < 2^F32Mantissa THEN 0 ELSE 1 + Excess(m \div 2)

\* the f32 nearest to m * 2^e
F32Round(m, e) ==
    IF m = 0 THEN F32(0, 0)
    ELSE IF m < 2^F32Mantissa THEN ShiftUp(m, e)
    ELSE LET s == Excess(m)
             q == RoundHalfEven(m \div 2^s, m % 2^s, 2^s)
         IN  IF q = 2^F32Mantissa THEN F32(2^(F32Mantissa - 1), e + s + 1)
             ELSE F32(q, e + s)

\* n as f32
F32FromU32(n) == F32Round(n, 0)

\* k more bits of the quotient q with remainder r of a division by d
RECURSIVE DivBits(_, _, _, _)
DivBits(q, r, d, k) ==
    IF k = 0 THEN [q |-> q, r |-> r]
    ELSE DivBits(2 * q + (2 * r) \div d, (2 * r) % d, d, k - 1)

\* a / b for b > 0
F32Div(a, b) ==
    IF a.m = 0 THEN F32(0, 0)
    ELSE LET k == IF a.m >= b.m THEN F32Mantissa - 1 ELSE F32Mantissa
             qr == DivBits(a.m \div b.m, a.m % b.m, b.m, k)
             q == RoundHalfEven(qr.q, qr.r, b.m)
         IN  IF q = 2^F32Mantissa THEN F32(2^(F32Mantissa - 1), a.e - b.e - k + 1)
             ELSE F32(q, a.e - b.e - k)

\* a * 100.0: 100 is 25 * 2^2 and a.m * 25 is exact
F32Mul100(a) == F32Round(a.m * 25, a.e + 2)

F32Hundred == F32FromU32(100)

F32Less(a, b) ==
    IF a.m = 0 THEN b.m > 0
    ELSE b.m > 0 /\ (a.e < b.e \/ (a.e = b.e /\ a.m < b.m))

\* f32::min
F32Min(a, b) == IF F32Less(b, a) THEN b ELSE a

\* `x as u32`: truncation toward zero
F32AsU32(a) ==
    IF a.e >= 0 THEN a.m * 2^a.e
    ELSE IF 0 - a.e >= F32Mantissa THEN 0
    ELSE a.m \div 2^(0 - a.e)

\* ------------------------------------------------------ TokenUsage::health
\* (self.total as f32 / threshold as f32 * 100.0).min(100.0)
percentage(usage, threshold) ==
    F32Min(F32Mul100(F32Div(F32FromU32(usage.total), F32FromU32(threshold))),
           F32Hundred)

health(usage, warn_threshold, rotate_threshold) ==
    LET percent == percentage(usage, rotate_threshold)
        warn_percent == F32Mul100(F32Div(F32FromU32(warn_threshold),
                                         F32FromU32(rotate_threshold)))
        p == F32AsU32(percent)
    IN  IF p < F32AsU32(warn_percent) THEN "Healthy"
        ELSE IF p < 100 THEN "Warning"
        ELSE "Critical"

\* ------------------------------------------------------------ StreamParser
StreamParserNew(iteration, token_usage, warn_threshold, rotate_threshold) ==
    [iteration |-> iteration,
     token_usage |-> token_usage,
     warn_threshold |-> warn_threshold,
     rotate_threshold |-> rotate_threshold,
     command_failures |-> [c \in Commands |-> 0],
     file_writes |-> [f \in Paths |-> <<>>]]

\* writes.retain(|&t| t > ten_mins_ago)
RECURSIVE Retain(_, _)
Retain(writes, ten_mins_ago) ==
    IF writes = <<>> THEN <<>>
    ELSE IF Head(writes) > ten_mins_ago
         THEN <<Head(writes)>> \o Retain(Tail(writes), ten_mins_ago)
         ELSE Retain(Tail(writes), ten_mins_ago)

\* the token update at the top of parse_activity
\* the update counting a Shell activity only when the command failed
TokenUpdateOf_FailedShellOnly(usage, kind) ==
    IF kind.type = "read"
    THEN [usage EXCEPT !.read = @ + kind.bytes, !.total = @ + kind.bytes]
    ELSE IF kind.type = "write"
    THEN [usage EXCEPT !.write = @ + kind.bytes, !.total = @ + kind.bytes]
    ELSE IF kind.type = "shell" /\ kind.exit_code # 0
    THEN [usage EXCEPT !.shell = @ + ShellEstimate, !.total = @ + ShellEstimate]
    ELSE usage

TokenUpdateOf(usage, kind) ==
    IF kind.type = "read"
    THEN [usage EXCEPT !.read = @ + kind.bytes, !.total = @ + kind.bytes]
    ELSE IF kind.type = "write"
    THEN [usage EXCEPT !.write = @ + kind.bytes, !.total = @ + kind.bytes]
    ELSE IF kind.type = "shell"
    THEN [usage EXCEPT !.shell = @ + ShellEstimate, !.total = @ + ShellEstimate]
    ELSE usage

\* *count >= self.gutter_fail_count
\* the comparison with > for >=
FailureLimit_Strict(count) == count > gutter_fail_count

FailureLimit(count) == count >= gutter_fail_count

\* the writes of one path after the push of now and the retain
\* the writes without the retain
WritesAfter_NoRetain(writes, now) == Append(writes, now)

WritesAfter(writes, now) ==
    Retain(Append(writes, now), IF now >= ThrashWindow THEN now - ThrashWindow ELSE 0)

\* the token thresholds, checked when no gutter condition fired
\* the thresholds checked in the other order
ThresholdSignal_WarnFirst(total, warn_threshold, rotate_threshold) ==
    IF total >= warn_threshold THEN SignalWarn
    ELSE IF total >= rotate_threshold THEN SignalRotate
    ELSE NoSignal

ThresholdSignal(total, warn_threshold, rotate_threshold) ==
    IF total >= rotate_threshold THEN SignalRotate
    ELSE IF total >= warn_threshold THEN SignalWarn
    ELSE NoSignal

\* the failure count of a command after one more failure
\* the count starting again once the limit has been reached
FailuresAfter_ResetAtLimit(count) ==
    IF count >= gutter_fail_count THEN 1 ELSE count + 1

FailuresAfter(count) == count + 1

\* parse_activity(kind) at clock value now: the parser after the call
ParserAfter(p, kind, now) ==
    LET failing == kind.type = "shell" /\ kind.exit_code # 0
    IN  [p EXCEPT
            !.token_usage = TokenUpdateOf(@, kind),
            !.command_failures =
                IF failing THEN [@ EXCEPT ![kind.name] = FailuresAfter(@)] ELSE @,
            !.file_writes =
                IF kind.type = "write"
                THEN [@ EXCEPT ![kind.name] = WritesAfter(@, now)] ELSE @]

\* parse_activity(kind) at clock value now: the signal it returns
\* the signal with the thresholds checked before the gutter conditions
SignalOf_ThresholdFirst(p, kind, now) ==
    LET after == ParserAfter(p, kind, now)
        failing == kind.type = "shell" /\ kind.exit_code # 0
        count == after.command_failures[kind.name]
        writes == after.file_writes[kind.name]
        signal == ThresholdSignal(after.token_usage.total, p.warn_threshold,
                                  p.rotate_threshold)
    IN  IF signal # NoSignal THEN signal
        ELSE IF failing /\ FailureLimit(count)
        THEN SignalGutter(CommandFailedReason(kind.name, count))
        ELSE IF kind.type = "write" /\ Len(writes) >= gutter_thrash_count
        THEN SignalGutter(FileThrashingReason(kind.name, Len(writes)))
        ELSE NoSignal

SignalOf(p, kind, now) ==
    LET after == ParserAfter(p, kind, now)
        failing == kind.type = "shell" /\ kind.exit_code # 0
        count == after.command_failures[kind.name]
        writes == after.file_writes[kind.name]
    IN  IF failing /\ FailureLimit(count)
        THEN SignalGutter(CommandFailedReason(kind.name, count))
        ELSE IF kind.type = "write" /\ Len(writes) >= gutter_thrash_count
        THEN SignalGutter(FileThrashingReason(kind.name, Len(writes)))
        ELSE ThresholdSignal(after.token_usage.total, p.warn_threshold,
                             p.rotate_threshold)

\* parse_activity(kind) at clock value now: the parser after the call, the
\* entry and the signal it returns
parse_activity(p, kind, now) ==
    LET after == ParserAfter(p, kind, now)
    IN  [parser |-> after,
         entry |-> [iteration |-> p.iteration, kind |-> kind,
                    health |-> health(after.token_usage, p.warn_threshold,
                                      p.rotate_threshold)],
         signal |-> SignalOf(p, kind, now)]

\* the clock value the activities of one iteration are handled at
IterationClock == ThrashWindow + 1

\* The parser after the handlers of the activities acts have run, in that
\* order, and the Gutter reasons their calls returned
RECURSIVE ParseAll(_, _)
ParseAll(p, acts) ==
    IF acts = <<>> THEN [parser |-> p, gutters |-> {}]
    ELSE LET signal == SignalOf(p, Head(acts), IterationClock)
             rest == ParseAll(ParserAfter(p, Head(acts), IterationClock), Tail(acts))
         IN  [parser |-> rest.parser,
              gutters |-> rest.gutters \cup
                          (IF signal.tag = "Gutter" THEN {signal.arg} ELSE {})]

\* ------------------------------------------------------------------- state
VARIABLES
    sessions,            \* SessionManager.sessions: session id -> Session
    disk,                \* the prd.json of the project (NoPrd: no file yet)
    activity_channels,   \* by session id, the entries each subscriber has received
    loops,               \* the run_loop tasks: position and local `session`
    calls,               \* manager calls between their read and their write
    ret,                 \* what the call that returned in the last step returned
    parser,              \* the StreamParser of the iteration in progress
    clock,               \* SystemTime::now(), in seconds
    seen,                \* the parse_activity calls made so far, with their results
    handlers,            \* the tasks the activity callback has spawned
    gutter_signal,       \* run_iteration's gutter_signal: <<>> is None
    output,              \* activities the subprocess has still to emit
    channels,            \* activity_channels by session id, with each receiver's end
    sent,                \* by session id, the entries broadcast so far
    runner               \* the subprocess of the iteration and the runner's timer

\* the state of the parser, of the handler tasks and of the channels of
\* several sessions, which the steps of the session run-loop leave alone
unitVars ==
    <<parser, clock, seen, handlers, gutter_signal, output, channels, sent, runner>>

vars == <<sessions, disk, activity_channels, loops, calls, ret,
          parser, clock, seen, handlers, gutter_signal, output, channels, sent,
          runner>>

LoopIds == 1..MaxLoops
CallIds == 1..MaxCalls

\* the Session create_session builds
NewSession(config) ==
    [id |-> SessionId, project_path |-> ProjectPath, status |-> Idle,
     config |-> config, prd |-> NoPrd, current_iteration |-> 0,
     token_usage |-> TokenUsageDefault, created_at |-> 0]

\* value of the `session` of a slot that holds no task or call
NoSession == NewSession(SessionConfig(0))

NoLoop == [pc |-> "none", session |-> NoSession, story_id |-> "", reason |-> <<>>]
DoneLoop == [pc |-> "done", session |-> NoSession, story_id |-> "", reason |-> <<>>]
NoCall == [op |-> "none", session |-> NoSession, prd |-> NoPrd]

Returned(op, res) == [op |-> op, res |-> res, arg |-> ""]
\* the return of create_session(project_path, config)
CreateReturned(res, project_path) ==
    [op |-> "create_session", res |-> res, arg |-> project_path]
\* the value of ret after a step in which no call returns
NoReturn == Returned("none", "none")

\* the PRDs a caller passes to set_prd: story ids are unique
StoriesOfLen(n) == [i \in 1..n |-> Story(StoryId(i), n + 1 - i, FALSE)]
PrdInputs == {StoriesOfLen(n) : n \in 0..MaxStories}

\* ---------------------------------------------------------------- registry
get_session(id) == sessions[id]

update_session(session) ==
    [i \in DOMAIN sessions \cup {session.id} |->
        IF i = session.id THEN session ELSE sessions[i]]

\* the broadcast that reaches the senders of every session
broadcast_activity_All(session_id, entry) ==
    [i \in DOMAIN activity_channels |->
        [k \in DOMAIN activity_channels[i] |->
            Append(activity_channels[i][k], entry)]]

broadcast_activity(session_id, entry) ==
    [i \in DOMAIN activity_channels |->
        IF i = session_id
        THEN [k \in DOMAIN activity_channels[i] |->
                 Append(activity_channels[i][k], entry)]
        ELSE activity_channels[i]]

SignalEntry(iteration, signal, h) ==
    [iteration |-> iteration, kind |-> signal, health |-> h]

SessionHealth(session) ==
    health(session.token_usage, session.config.warn_threshold,
           session.config.rotate_threshold)

\* ----------------------------------------------------------- pure helpers
\* prd.stories.iter().filter(|s| !s.passes).min_by_key(|s| s.priority):
\* the index of the story, 0 for None.  The fold keeps the element it has
\* unless a later one is strictly smaller.
\* min_by_key keeping the last of several equal minima
RECURSIVE MinByKey_LastMin(_, _, _)
MinByKey_LastMin(stories, i, best) ==
    IF i > Len(stories) THEN best
    ELSE IF stories[i].passes THEN MinByKey_LastMin(stories, i + 1, best)
    ELSE IF best = 0 THEN MinByKey_LastMin(stories, i + 1, i)
    ELSE IF stories[best].priority >= stories[i].priority
         THEN MinByKey_LastMin(stories, i + 1, i)
         ELSE MinByKey_LastMin(stories, i + 1, best)

RECURSIVE MinByKey(_, _, _)
MinByKey(stories, i, best) ==
    IF i > Len(stories) THEN best
    ELSE IF stories[i].passes THEN MinByKey(stories, i + 1, best)
    ELSE IF best = 0 THEN MinByKey(stories, i + 1, i)
    ELSE IF stories[best].priority > stories[i].priority
         THEN MinByKey(stories, i + 1, i)
         ELSE MinByKey(stories, i + 1, best)

NextStory(prd) == IF prd.some THEN MinByKey(prd.stories, 1, 0) ELSE 0

\* prd.stories.iter_mut().find(|s| s.id == story_id): s.passes = true
MarkPasses(prd, story_id) ==
    LET found == {i \in 1..Len(prd.stories) : prd.stories[i].id = story_id}
    IN  IF ~prd.some \/ found = {} THEN prd
        ELSE LET first == CHOOSE i \in found : \A j \in found : i <= j
             IN  [prd EXCEPT !.stories[first].passes = TRUE]

\* matches!(status, Idle | Paused)
IdleOrPaused(status) == status.tag \in {"Idle", "Paused"}

\* start_session without the check for an empty story list
Startable_NoEmptyCheck(session) ==
    /\ IdleOrPaused(session.status)
    /\ session.prd.some

\* the three checks of start_session
Startable(session) ==
    /\ IdleOrPaused(session.status)
    /\ session.prd.some
    /\ session.prd.stories # <<>>

\* the loop condition with <= for <
LoopCondition_Inclusive(session) ==
    session.current_iteration <= session.config.max_iterations

\* while session.current_iteration < session.config.max_iterations
LoopCondition(session) == session.current_iteration < session.config.max_iterations

\* the rotation check with > for >=
RotationDue_Strict(session) ==
    session.token_usage.total > session.config.rotate_threshold

\* total >= rotate_threshold at the end of run_iteration
RotationDue(session) == session.token_usage.total >= session.config.rotate_threshold

\* a std::io::Error: its kind() and its raw_os_error(), 0 for None
IoError(kind, os) == [kind |-> kind, os |-> os]
NoError == IoError("none", 0)

\* no subprocess: `state` is none, spawning, sleeping, spawn_failed,
\* running, exited or killed, `stdout` is whether the pipe is still open,
\* `started` and `waiting` are the clock values at the spawn and at the
\* start of child.wait(); of spawn_with_retry, `attempt` is the loop
\* variable, `last_error` the local of that name, `slept` the delays slept
\* so far and `error` the error returned; `shutdown` is whether a message
\* is waiting in shutdown_rx, `lines` what the subprocess writes in all
NoChild == [state |-> "none", stdout |-> FALSE, exit_code |-> 0,
            started |-> 0, waiting |-> 0, shutdown |-> FALSE, lines |-> <<>>,
            attempt |-> 0, last_error |-> NoError, slept |-> <<>>,
            error |-> NoError]

\* --------------------------------------------------------------- Init
\* no iteration in progress, no parse_activity call made, no channel
UnitInit ==
    /\ parser = StreamParserNew(0, TokenUsageDefault, WarnThreshold, RotateThreshold)
    /\ clock = 0
    /\ seen = <<>>
    /\ handlers = <<>>
    /\ gutter_signal = <<>>
    /\ output = <<>>
    /\ channels = [i \in {} |-> <<>>]
    /\ sent = [i \in {} |-> <<>>]
    /\ runner = NoChild

\* SessionManager::new(): no session, no subscriber, no task
ManagerInit ==
    /\ sessions = [i \in {} |-> NoSession]
    /\ disk = NoPrd
    /\ activity_channels = [i \in SessionIds |-> <<>>]
    /\ loops = [l \in LoopIds |-> NoLoop]
    /\ calls = [c \in CallIds |-> NoCall]
    /\ ret = NoReturn

Init ==
    /\ ManagerInit
    /\ UnitInit

\* ------------------------------------------------------------ manager calls
\* sessions.get(id) is Some
\* the lookup that finds no session at all
Known_None(id) == FALSE

Known(id) == id \in DOMAIN sessions

\* the checks of create_session and create_dir_all(.ralph)
\* the checks without the one for the .git entry
CreateResult_NoGitCheck(project_path) ==
    IF ~PathExists(project_path) THEN "Io"
    ELSE IF ~CanCreateDir(project_path) THEN "Io"
    ELSE "Ok"

CreateResult(project_path) ==
    IF ~PathExists(project_path) THEN "Io"
    ELSE IF ~HasGitEntry(project_path) THEN "Git"
    ELSE IF ~CanCreateDir(project_path) THEN "Io"
    ELSE "Ok"

create_session(id) ==
    /\ ~Known(id)
    /\ \E project_path \in ProjectPaths, max_iterations \in 0..MaxIterations :
          /\ ret' = CreateReturned(CreateResult(project_path), project_path)
          /\ sessions' =
                IF CreateResult(project_path) = "Ok"
                THEN update_session(
                        [NewSession(SessionConfig(max_iterations)) EXCEPT
                            !.id = id, !.project_path = project_path,
                            !.created_at = clock])
                ELSE sessions
    /\ UNCHANGED <<disk, activity_channels, loops, calls>>
    /\ UNCHANGED unitVars

\* list_sessions(): the sessions of the registry
list_sessions == {sessions[i] : i \in DOMAIN sessions}

\* get_session(id)? of a call on an id that is not in the registry
session_not_found(id) ==
    /\ ~Known(id)
    /\ \E op \in {"get_session", "start_session", "pause_session", "stop_session", "set_prd"} :
          ret' = [op |-> op, res |-> "SessionNotFound", arg |-> id]
    /\ UNCHANGED <<sessions, disk, activity_channels, loops, calls>>
    /\ UNCHANGED unitVars

subscribe_to_activity(session_id) ==
    /\ Len(activity_channels[session_id]) < MaxSubscribers
    /\ activity_channels' =
          [activity_channels EXCEPT ![session_id] = Append(@, <<>>)]
    /\ UNCHANGED <<sessions, disk, loops, calls>>
    /\ ret' = NoReturn
    /\ UNCHANGED unitVars

\* start_session up to the spawn: the read, the three checks, tokio::spawn
start_session(c, id) ==
    /\ Known(id)
    /\ calls[c] = NoCall
    /\ LET session == get_session(id)
       IN  IF ~Startable(session)
           THEN /\ ret' = Returned("start_session", "InvalidState")
                /\ UNCHANGED <<loops, calls>>
           ELSE /\ \E l \in DOMAIN loops :
                      /\ loops[l] = NoLoop
                      /\ \A k \in DOMAIN loops : k < l => loops[k] # NoLoop
                      /\ loops' = [loops EXCEPT ![l] =
                            [pc |-> "poll", session |-> session,
                             story_id |-> "", reason |-> <<>>]]
                /\ calls' = [calls EXCEPT ![c] =
                      [op |-> "start_session",
                       session |-> [session EXCEPT !.status = Running("initializing")],
                       prd |-> NoPrd]]
                /\ ret' = NoReturn
    /\ UNCHANGED <<sessions, disk, activity_channels>>
    /\ UNCHANGED unitVars

pause_session(c, id) ==
    /\ Known(id)
    /\ calls[c] = NoCall
    /\ calls' = [calls EXCEPT ![c] =
          [op |-> "pause_session",
           session |-> [get_session(id) EXCEPT !.status = Paused],
           prd |-> NoPrd]]
    /\ UNCHANGED <<sessions, disk, activity_channels, loops>>
    /\ ret' = NoReturn
    /\ UNCHANGED unitVars

stop_session(c, id) ==
    /\ Known(id)
    /\ calls[c] = NoCall
    /\ calls' = [calls EXCEPT ![c] =
          [op |-> "stop_session",
           session |-> [get_session(id) EXCEPT !.status = Idle],
           prd |-> NoPrd]]
    /\ UNCHANGED <<sessions, disk, activity_channels, loops>>
    /\ ret' = NoReturn
    /\ UNCHANGED unitVars

\* set_prd up to write_prd_to_disk
set_prd(c, id) ==
    /\ Known(id)
    /\ calls[c] = NoCall
    /\ \E stories \in PrdInputs :
          calls' = [calls EXCEPT ![c] =
              [op |-> "set_prd", session |-> get_session(id),
               prd |-> SomePrd(stories)]]
    /\ UNCHANGED <<sessions, disk, activity_channels, loops>>
    /\ ret' = NoReturn
    /\ UNCHANGED unitVars

\* write_prd_to_disk of set_prd succeeds; then session.prd = Some(prd)
\* the same with the branch of the PRD copied into the config
set_prd_write_Branch(c) ==
    /\ calls[c].op = "set_prd"
    /\ disk' = calls[c].prd
    /\ calls' = [calls EXCEPT ![c] =
          [op |-> "set_prd_update",
           session |-> [calls[c].session EXCEPT
                           !.prd = calls[c].prd,
                           !.config.branch_name = <<"ralph/feature">>],
           prd |-> NoPrd]]
    /\ ret' = NoReturn
    /\ UNCHANGED <<sessions, activity_channels, loops>>
    /\ UNCHANGED unitVars

set_prd_write(c) ==
    /\ calls[c].op = "set_prd"
    /\ disk' = calls[c].prd
    /\ calls' = [calls EXCEPT ![c] =
          [op |-> "set_prd_update",
           session |-> [calls[c].session EXCEPT !.prd = calls[c].prd],
           prd |-> NoPrd]]
    /\ ret' = NoReturn
    /\ UNCHANGED <<sessions, activity_channels, loops>>
    /\ UNCHANGED unitVars

\* write_prd_to_disk of set_prd fails: the `?` returns the Io error
set_prd_write_error(c) ==
    /\ calls[c].op = "set_prd"
    /\ ret' = Returned("set_prd", "Io")
    /\ calls' = [calls EXCEPT ![c] = NoCall]
    /\ UNCHANGED <<sessions, disk, activity_channels, loops>>
    /\ UNCHANGED unitVars

\* the closing update_session(session.clone()) of start, pause, stop, set_prd
call_update(c) ==
    /\ calls[c].op \in {"start_session", "pause_session", "stop_session", "set_prd_update"}
    /\ sessions' = update_session(calls[c].session)
    /\ ret' = Returned(IF calls[c].op = "set_prd_update" THEN "set_prd" ELSE calls[c].op, "Ok")
    /\ calls' = [calls EXCEPT ![c] = NoCall]
    /\ UNCHANGED <<disk, activity_channels, loops>>
    /\ UNCHANGED unitVars

\* ----------------------------------------------------------------- run_loop
At(l, pc) == loops[l].pc = pc

Goto(l, pc, session) == [loops EXCEPT ![l].pc = pc, ![l].session = session]

\* top of the loop with current_iteration < max_iterations: the poll of the
\* registry and the selection of the next story
run_loop_poll(l) ==
    /\ At(l, "poll")
    /\ LoopCondition(loops[l].session)
    /\ LET current == get_session(loops[l].session.id)
           session == loops[l].session
           next == NextStory(session.prd)
       IN  IF IdleOrPaused(current.status)
           THEN loops' = [loops EXCEPT ![l] = DoneLoop]
           ELSE IF next = 0
           THEN loops' = Goto(l, "complete", [session EXCEPT !.status = Complete])
           ELSE loops' = [loops EXCEPT
                    ![l].pc = "running",
                    ![l].story_id = session.prd.stories[next].id,
                    ![l].session = [session EXCEPT
                        !.status = Running(session.prd.stories[next].id)]]
    /\ UNCHANGED <<sessions, disk, activity_channels, calls>>
    /\ ret' = NoReturn
    /\ UNCHANGED unitVars

\* the loop condition fails: status Failed, update_session, return
run_loop_failed(l) ==
    /\ At(l, "poll")
    /\ ~LoopCondition(loops[l].session)
    /\ sessions' = update_session(
          [loops[l].session EXCEPT !.status = Failed("Max iterations reached")])
    /\ loops' = [loops EXCEPT ![l] = DoneLoop]
    /\ UNCHANGED <<disk, activity_channels, calls>>
    /\ ret' = NoReturn
    /\ UNCHANGED unitVars

\* no story left: update_session with status Complete
complete_update(l) ==
    /\ At(l, "complete")
    /\ sessions' = update_session(loops[l].session)
    /\ loops' = [loops EXCEPT ![l].pc = "complete_broadcast"]
    /\ UNCHANGED <<disk, activity_channels, calls>>
    /\ ret' = NoReturn
    /\ UNCHANGED unitVars

complete_broadcast(l) ==
    /\ At(l, "complete_broadcast")
    /\ activity_channels' = broadcast_activity(loops[l].session.id,
          SignalEntry(loops[l].session.current_iteration, SignalComplete,
                      SessionHealth(loops[l].session)))
    /\ loops' = [loops EXCEPT ![l] = DoneLoop]
    /\ UNCHANGED <<sessions, disk, calls>>
    /\ ret' = NoReturn
    /\ UNCHANGED unitVars

\* update_session with status Running{story_id}; the iteration starts
running_update(l) ==
    /\ At(l, "running")
    /\ sessions' = update_session(loops[l].session)
    /\ loops' = [loops EXCEPT ![l].pc = "iteration"]
    /\ UNCHANGED <<disk, activity_channels, calls>>
    /\ ret' = NoReturn
    /\ UNCHANGED unitVars

\* StreamParser::new(...) of run_iteration
\* the parser created with all-zero usage
ParserOf_ZeroUsage(session) ==
    StreamParserNew(session.current_iteration, TokenUsageDefault,
                    session.config.warn_threshold, session.config.rotate_threshold)

ParserOf(session) ==
    StreamParserNew(session.current_iteration, session.token_usage,
                    session.config.warn_threshold, session.config.rotate_threshold)

\* run_iteration returns Ok: acts are the activities whose handler has run
\* by then, gutter is what gutter_signal holds by then
IterationReturn(l, acts, gutter) ==
    LET session == loops[l].session
        parsed == ParseAll(ParserOf(session), acts)
        after == [session EXCEPT !.token_usage = parsed.parser.token_usage]
    IN  /\ At(l, "iteration")
        /\ loops' = IF gutter # <<>>
                    THEN [loops EXCEPT ![l].pc = "gutter", ![l].reason = gutter,
                                       ![l].session = after]
                    ELSE IF RotationDue(after)
                    THEN Goto(l, "rotate", after)
                    ELSE Goto(l, "story_complete", after)
        /\ UNCHANGED <<sessions, disk, activity_channels, calls>>
        /\ ret' = NoReturn

IterationEnd(l, acts, gutter) ==
    /\ IterationReturn(l, acts, gutter)
    /\ UNCHANGED unitVars

\* what the subprocess of one iteration makes the handlers see: nothing,
\* one read, a read and a write that reach rotate_threshold exactly, or a
\* command failing gutter_fail_count times
IterationInputs ==
    {<<>>, <<ReadKind>>, <<ReadKind, WriteKind>>,
     <<ShellKind(1), ShellKind(1), ShellKind(1)>>}

run_iteration(l) ==
    /\ At(l, "iteration")
    /\ \E acts \in IterationInputs :
          \E gutter \in {<<>>} \cup ParseAll(ParserOf(loops[l].session), acts).gutters :
              IterationEnd(l, acts, gutter)

\* run_iteration(&mut session).await? with Err: run_loop returns and the
\* task that start_session spawned logs the error
\* the way out that records the error in the status
LoopAbort_Failed(l) ==
    /\ loops' = [loops EXCEPT ![l] = DoneLoop]
    /\ sessions' = update_session(
          [loops[l].session EXCEPT !.status = Failed("cursor-agent error")])

LoopAbort(l) ==
    /\ loops' = [loops EXCEPT ![l] = DoneLoop]
    /\ UNCHANGED sessions

\* run_iteration returns Err (spawn failure, timeout, non-zero exit): the
\* `?` leaves run_loop
run_iteration_error(l) ==
    /\ At(l, "iteration")
    /\ LoopAbort(l)
    /\ UNCHANGED <<disk, activity_channels, calls>>
    /\ ret' = NoReturn
    /\ UNCHANGED unitVars

\* StoryComplete: s.passes = true and write_prd_to_disk
story_complete_write(l) ==
    /\ At(l, "story_complete")
    /\ LET session == [loops[l].session EXCEPT
                          !.prd = MarkPasses(@, loops[l].story_id)]
       IN  /\ disk' = IF session.prd.some THEN session.prd ELSE disk
           /\ loops' = Goto(l, "story_complete_update", session)
    /\ UNCHANGED <<sessions, activity_channels, calls>>
    /\ ret' = NoReturn
    /\ UNCHANGED unitVars

\* StoryComplete: write_prd_to_disk fails and the `?` leaves run_loop
story_complete_write_error(l) ==
    /\ At(l, "story_complete")
    /\ loops[l].session.prd.some
    /\ loops' = [loops EXCEPT ![l] = DoneLoop]
    /\ UNCHANGED <<sessions, disk, activity_channels, calls>>
    /\ ret' = NoReturn
    /\ UNCHANGED unitVars

\* StoryComplete: current_iteration += 1 and update_session
story_complete_update(l) ==
    /\ At(l, "story_complete_update")
    /\ LET session == [loops[l].session EXCEPT !.current_iteration = @ + 1]
       IN  /\ sessions' = update_session(session)
           /\ loops' = Goto(l, "story_complete_broadcast", session)
    /\ UNCHANGED <<disk, activity_channels, calls>>
    /\ ret' = NoReturn
    /\ UNCHANGED unitVars

story_complete_broadcast(l) ==
    /\ At(l, "story_complete_broadcast")
    /\ activity_channels' = broadcast_activity(loops[l].session.id,
          SignalEntry(loops[l].session.current_iteration,
                      SignalStoryComplete(loops[l].story_id),
                      SessionHealth(loops[l].session)))
    /\ loops' = [loops EXCEPT ![l].pc = "poll"]
    /\ UNCHANGED <<sessions, disk, calls>>
    /\ ret' = NoReturn
    /\ UNCHANGED unitVars

\* Rotate: current_iteration += 1, token_usage = default, update_session
rotate_update(l) ==
    /\ At(l, "rotate")
    /\ LET session == [loops[l].session EXCEPT !.current_iteration = @ + 1,
                                              !.token_usage = TokenUsageDefault]
       IN  /\ sessions' = update_session(session)
           /\ loops' = Goto(l, "rotate_broadcast", session)
    /\ UNCHANGED <<disk, activity_channels, calls>>
    /\ ret' = NoReturn
    /\ UNCHANGED unitVars

rotate_broadcast(l) ==
    /\ At(l, "rotate_broadcast")
    /\ activity_channels' = broadcast_activity(loops[l].session.id,
          SignalEntry(loops[l].session.current_iteration, SignalRotate, "Critical"))
    /\ loops' = [loops EXCEPT ![l].pc = "poll"]
    /\ UNCHANGED <<sessions, disk, calls>>
    /\ ret' = NoReturn
    /\ UNCHANGED unitVars

\* Gutter(reason): status Gutter{reason}, update_session
gutter_update(l) ==
    /\ At(l, "gutter")
    /\ LET session == [loops[l].session EXCEPT !.status = Gutter(loops[l].reason)]
       IN  /\ sessions' = update_session(session)
           /\ loops' = Goto(l, "gutter_broadcast", session)
    /\ UNCHANGED <<disk, activity_channels, calls>>
    /\ ret' = NoReturn
    /\ UNCHANGED unitVars

\* the Gutter arm without its return: the loop goes on
gutter_broadcast_continue(l) ==
    /\ At(l, "gutter_broadcast")
    /\ activity_channels' = broadcast_activity(loops[l].session.id,
          SignalEntry(loops[l].session.current_iteration,
                      SignalGutter(loops[l].reason),
                      SessionHealth(loops[l].session)))
    /\ loops' = [loops EXCEPT ![l].pc = "poll"]
    /\ UNCHANGED <<sessions, disk, calls>>
    /\ ret' = NoReturn
    /\ UNCHANGED unitVars

gutter_broadcast(l) ==
    /\ At(l, "gutter_broadcast")
    /\ activity_channels' = broadcast_activity(loops[l].session.id,
          SignalEntry(loops[l].session.current_iteration,
                      SignalGutter(loops[l].reason),
                      SessionHealth(loops[l].session)))
    /\ loops' = [loops EXCEPT ![l] = DoneLoop]
    /\ UNCHANGED <<sessions, disk, calls>>
    /\ ret' = NoReturn
    /\ UNCHANGED unitVars

\* ------------------------------------------------------------ specification
Next ==
    \/ create_session(SessionId)
    \/ session_not_found(SessionId)
    \/ subscribe_to_activity(SessionId)
    \/ \E c \in DOMAIN calls : start_session(c, SessionId)
    \/ \E c \in DOMAIN calls : pause_session(c, SessionId)
    \/ \E c \in DOMAIN calls : stop_session(c, SessionId)
    \/ \E c \in DOMAIN calls : set_prd(c, SessionId)
    \/ \E c \in DOMAIN calls : set_prd_write(c)
    \/ \E c \in DOMAIN calls : set_prd_write_error(c)
    \/ \E c \in DOMAIN calls : call_update(c)
    \/ \E l \in DOMAIN loops : run_loop_poll(l)
    \/ \E l \in DOMAIN loops : run_loop_failed(l)
    \/ \E l \in DOMAIN loops : complete_update(l)
    \/ \E l \in DOMAIN loops : complete_broadcast(l)
    \/ \E l \in DOMAIN loops : running_update(l)
    \/ \E l \in DOMAIN loops : run_iteration(l)
    \/ \E l \in DOMAIN loops : run_iteration_error(l)
    \/ \E l \in DOMAIN loops : story_complete_write(l)
    \/ \E l \in DOMAIN loops : story_complete_write_error(l)
    \/ \E l \in DOMAIN loops : story_complete_update(l)
    \/ \E l \in DOMAIN loops : story_complete_broadcast(l)
    \/ \E l \in DOMAIN loops : rotate_update(l)
    \/ \E l \in DOMAIN loops : rotate_broadcast(l)
    \/ \E l \in DOMAIN loops : gutter_update(l)
    \/ \E l \in DOMAIN loops : gutter_broadcast(l)

Spec == Init /\ [][Next]_vars

\* ------------------------------------------- specifications of special runs
\* the run-loop steps every specification shares
LoopStep(l) ==
    \/ run_loop_poll(l)
    \/ run_loop_failed(l)
    \/ complete_update(l)
    \/ complete_broadcast(l)
    \/ running_update(l)
    \/ story_complete_write(l)
    \/ story_complete_update(l)
    \/ story_complete_broadcast(l)

NoLoopSpawned == \A l \in DOMAIN loops : loops[l] = NoLoop

\* No pause_session and no stop_session is ever called.
NextNoPause ==
    \/ create_session(SessionId)
    \/ subscribe_to_activity(SessionId)
    \/ \E c \in DOMAIN calls : start_session(c, SessionId)
    \/ \E c \in DOMAIN calls : set_prd(c, SessionId)
    \/ \E c \in DOMAIN calls : set_prd_write(c)
    \/ \E c \in DOMAIN calls : set_prd_write_error(c)
    \/ \E c \in DOMAIN calls : call_update(c)
    \/ \E l \in DOMAIN loops : LoopStep(l)
    \/ \E l \in DOMAIN loops : run_iteration(l)
    \/ \E l \in DOMAIN loops : run_iteration_error(l)
    \/ \E l \in DOMAIN loops : story_complete_write_error(l)
    \/ \E l \in DOMAIN loops : rotate_update(l)
    \/ \E l \in DOMAIN loops : rotate_broadcast(l)
    \/ \E l \in DOMAIN loops : gutter_update(l)
    \/ \E l \in DOMAIN loops : gutter_broadcast(l)

SpecNoPause == Init /\ [][NextNoPause]_vars

\* The subscriber and the PRD are in place before the one start_session; the
\* Iteration Runner always succeeds with zero activity lines, every disk
\* write succeeds, and nobody pauses or stops.
quiet_iteration(l) == IterationEnd(l, <<>>, <<>>)

NextQuiet ==
    \/ create_session(SessionId)
    \/ NoLoopSpawned /\ subscribe_to_activity(SessionId)
    \/ NoLoopSpawned /\ \E c \in DOMAIN calls : set_prd(c, SessionId)
    \/ \E c \in DOMAIN calls : set_prd_write(c)
    \/ \E c \in DOMAIN calls : start_session(c, SessionId)
    \/ \E c \in DOMAIN calls : call_update(c)
    \/ \E l \in DOMAIN loops : LoopStep(l)
    \/ \E l \in DOMAIN loops : quiet_iteration(l)

SpecQuiet == Init /\ [][NextQuiet]_vars

\* Callers use the ids of SessionIds, of which only SessionId is ever
\* created: calls on an id arrive before, while and after the session of
\* another id runs.  The Iteration Runner always succeeds with zero activity
\* lines and every disk write succeeds.
NextLookup ==
    \/ create_session(SessionId)
    \/ \E id \in SessionIds : session_not_found(id)
    \/ \E c \in DOMAIN calls, id \in SessionIds : start_session(c, id)
    \/ \E c \in DOMAIN calls, id \in SessionIds : pause_session(c, id)
    \/ \E c \in DOMAIN calls, id \in SessionIds : stop_session(c, id)
    \/ \E c \in DOMAIN calls, id \in SessionIds : set_prd(c, id)
    \/ \E c \in DOMAIN calls : set_prd_write(c)
    \/ \E c \in DOMAIN calls : call_update(c)
    \/ \E l \in DOMAIN loops : LoopStep(l)
    \/ \E l \in DOMAIN loops : quiet_iteration(l)

SpecLookup == Init /\ [][NextLookup]_vars

\* Story selection: the session has been created, given any PRD of up to
\* SelectStories stories and started; the run-loop is about to poll.
SelectStories == 3

SelectPrds ==
    UNION {{[i \in 1..n |-> Story(StoryId(i), pr[i], ps[i])] :
              pr \in [1..n -> 1..MaxPriority], ps \in [1..n -> BOOLEAN]} :
           n \in 1..SelectStories}

InitSelect ==
    \E stories \in SelectPrds, max_iterations \in 1..MaxIterations :
        LET session == [NewSession(SessionConfig(max_iterations)) EXCEPT
                            !.prd = SomePrd(stories)]
        IN  /\ sessions = [i \in {SessionId} |->
                              [session EXCEPT !.status = Running("initializing")]]
            /\ disk = SomePrd(stories)
            /\ activity_channels = [i \in SessionIds |-> <<>>]
            /\ loops = [l \in {MaxLoops} |->
                           [pc |-> "poll", session |-> session,
                            story_id |-> "", reason |-> <<>>]]
            /\ calls = [c \in CallIds |-> NoCall]
            /\ ret = NoReturn
            /\ UnitInit

NextSelect ==
    \/ \E l \in DOMAIN loops : LoopStep(l)
    \/ \E l \in DOMAIN loops : run_iteration(l)
    \/ \E l \in DOMAIN loops : run_iteration_error(l)
    \/ \E l \in DOMAIN loops : story_complete_write_error(l)
    \/ \E l \in DOMAIN loops : rotate_update(l)
    \/ \E l \in DOMAIN loops : rotate_broadcast(l)
    \/ \E l \in DOMAIN loops : gutter_update(l)
    \/ \E l \in DOMAIN loops : gutter_broadcast(l)

SpecSelect == InitSelect /\ [][NextSelect]_vars

\* ------------------------------- specification of successive iterations
\* A session with CarryStories unfinished stories and as many iterations
\* has been started; `seen` keeps, for each iteration, the activities its
\* handlers have parsed when the usage is copied back.

\* what the subprocess emits in one iteration: one or two failures of the
\* same command, one read, one write, or a read and a write that reach
\* rotate_threshold
CarryInputs ==
    {<<ShellKind(1)>>, <<ShellKind(1), ShellKind(1)>>, <<ReadKind>>,
     <<WriteKind>>, <<ReadKind, WriteKind>>}

InitCarry ==
    LET session == [NewSession(SessionConfig(CarryStories)) EXCEPT
                        !.prd = SomePrd(StoriesOfLen(CarryStories))]
    IN  /\ sessions = [i \in {SessionId} |->
                          [session EXCEPT !.status = Running("initializing")]]
        /\ disk = SomePrd(StoriesOfLen(CarryStories))
        /\ activity_channels = [i \in SessionIds |-> <<>>]
        /\ loops = [l \in {MaxLoops} |->
                       [pc |-> "poll", session |-> session,
                        story_id |-> "", reason |-> <<>>]]
        /\ calls = [c \in CallIds |-> NoCall]
        /\ ret = NoReturn
        /\ UnitInit

carry_iteration(l) ==
    \E acts \in CarryInputs :
        /\ IterationReturn(l, acts,
              LET gutters == ParseAll(ParserOf(loops[l].session), acts).gutters
              IN  IF gutters = {} THEN <<>> ELSE CHOOSE g \in gutters : TRUE)
        /\ seen' = Append(seen, acts)
        /\ UNCHANGED <<parser, clock, handlers, gutter_signal, output, channels,
                       sent, runner>>

NextCarry ==
    \/ \E l \in DOMAIN loops : LoopStep(l)
    \/ \E l \in DOMAIN loops : carry_iteration(l)
    \/ \E l \in DOMAIN loops : rotate_update(l)
    \/ \E l \in DOMAIN loops : rotate_broadcast(l)

SpecCarry == InitCarry /\ [][NextCarry]_vars

\* ------------------------------------- specification of two sessions
\* Two sessions of the same project have been created and given a PRD of
\* one story, and each has one subscriber.  Callers start, pause and stop
\* either of them, and their run-loops run side by side.
InitTwo ==
    LET session(id) ==
            [NewSession(SessionConfig(1)) EXCEPT
                !.id = id, !.prd = SomePrd(StoriesOfLen(1))]
    IN  /\ sessions = [i \in SessionIds |-> session(i)]
        /\ disk = SomePrd(StoriesOfLen(1))
        /\ activity_channels = [i \in SessionIds |-> <<<<>>>>]
        /\ loops = [l \in 1..Cardinality(SessionIds) |-> NoLoop]
        /\ calls = [c \in CallIds |-> NoCall]
        /\ ret = NoReturn
        /\ UnitInit

NextTwo ==
    \/ \E c \in DOMAIN calls, id \in SessionIds : start_session(c, id)
    \/ \E c \in DOMAIN calls, id \in SessionIds : pause_session(c, id)
    \/ \E c \in DOMAIN calls, id \in SessionIds : stop_session(c, id)
    \/ \E c \in DOMAIN calls : call_update(c)
    \/ \E l \in DOMAIN loops : LoopStep(l)
    \/ \E l \in DOMAIN loops : run_iteration(l)
    \/ \E l \in DOMAIN loops : run_iteration_error(l)
    \/ \E l \in DOMAIN loops : story_complete_write_error(l)
    \/ \E l \in DOMAIN loops : rotate_update(l)
    \/ \E l \in DOMAIN loops : rotate_broadcast(l)
    \/ \E l \in DOMAIN loops : gutter_update(l)
    \/ \E l \in DOMAIN loops : gutter_broadcast(l)

SpecTwo == InitTwo /\ [][NextTwo]_vars

\* ------------------------------- specification of one iteration's tasks
\* run_iteration step by step: the runner calls the callback once per
\* activity line, the callback spawns one task per activity, and the tasks
\* run on their own, during the iteration and after it.

\* a task the callback has spawned, before its first step
NewHandler(session_id, kind) ==
    [pc |-> "parse", session_id |-> session_id, kind |-> kind,
     entry |-> [iteration |-> 0, kind |-> kind, health |-> "Healthy"],
     signal |-> NoSignal]

\* StreamParser::new, gutter_signal = None, and the subprocess is spawned
iteration_start(l) ==
    /\ At(l, "iteration")
    /\ parser' = ParserOf(loops[l].session)
    /\ gutter_signal' = <<>>
    /\ \E acts \in IterationInputs : output' = acts
    /\ loops' = [loops EXCEPT ![l].pc = "reading"]
    /\ ret' = NoReturn
    /\ runner' = [NoChild EXCEPT !.state = "running", !.stdout = TRUE,
                                 !.started = clock]
    /\ UNCHANGED <<sessions, disk, activity_channels, calls, clock, seen,
                   handlers, channels, sent>>

\* the runner reads one activity line: activity_callback(activity) spawns
\* the task that will handle it
runner_callback(l) ==
    /\ At(l, "reading")
    /\ output # <<>>
    /\ handlers' = Append(handlers, NewHandler(loops[l].session.id, Head(output)))
    /\ output' = Tail(output)
    /\ ret' = NoReturn
    /\ UNCHANGED <<sessions, disk, activity_channels, loops, calls, parser,
                   clock, seen, gutter_signal, channels, sent, runner>>

\* end of the stream and exit status zero: runner.run_iteration returns Ok
runner_exit(l) ==
    /\ At(l, "reading")
    /\ output = <<>>
    /\ loops' = [loops EXCEPT ![l].pc = "tokens"]
    /\ runner' = [runner EXCEPT !.state = "exited", !.stdout = FALSE]
    /\ ret' = NoReturn
    /\ UNCHANGED <<sessions, disk, activity_channels, calls, parser, clock, seen,
                   handlers, gutter_signal, output, channels, sent>>

\* session.token_usage = parser_guard.token_usage().clone()
iteration_tokens(l) ==
    /\ At(l, "tokens")
    /\ loops' = [loops EXCEPT ![l].pc = "gutter_check",
                              ![l].session.token_usage = parser.token_usage]
    /\ ret' = NoReturn
    /\ UNCHANGED <<sessions, disk, activity_channels, calls>>
    /\ UNCHANGED unitVars

\* the read of gutter_signal, then the rotation check, then StoryComplete
iteration_result(l) ==
    /\ At(l, "gutter_check")
    /\ loops' = IF gutter_signal # <<>>
                THEN [loops EXCEPT ![l].pc = "gutter", ![l].reason = gutter_signal]
                ELSE IF RotationDue(loops[l].session)
                THEN [loops EXCEPT ![l].pc = "rotate"]
                ELSE [loops EXCEPT ![l].pc = "story_complete"]
    /\ ret' = NoReturn
    /\ UNCHANGED <<sessions, disk, activity_channels, calls>>
    /\ UNCHANGED unitVars

\* the task takes the parser lock, calls parse_activity and drops the lock
handler_parse(h) ==
    /\ handlers[h].pc = "parse"
    /\ LET r == parse_activity(parser, handlers[h].kind, IterationClock)
       IN  /\ parser' = r.parser
           /\ handlers' = [handlers EXCEPT ![h].pc = "broadcast",
                                           ![h].entry = r.entry,
                                           ![h].signal = r.signal]
    /\ ret' = NoReturn
    /\ UNCHANGED <<sessions, disk, activity_channels, loops, calls, clock,
                   seen, gutter_signal, output, channels, sent, runner>>

\* manager.broadcast_activity(&session_id, entry)
handler_broadcast(h) ==
    /\ handlers[h].pc = "broadcast"
    /\ activity_channels' = broadcast_activity(handlers[h].session_id, handlers[h].entry)
    /\ handlers' = [handlers EXCEPT ![h].pc =
                        IF handlers[h].signal.tag = "Gutter" THEN "signal" ELSE "done"]
    /\ ret' = NoReturn
    /\ UNCHANGED <<sessions, disk, loops, calls, parser, clock, seen,
                   gutter_signal, output, channels, sent, runner>>

\* *gutter_signal.lock().await = Some(reason)
handler_signal(h) ==
    /\ handlers[h].pc = "signal"
    /\ gutter_signal' = handlers[h].signal.arg
    /\ handlers' = [handlers EXCEPT ![h].pc = "done"]
    /\ ret' = NoReturn
    /\ UNCHANGED <<sessions, disk, activity_channels, loops, calls, parser,
                   clock, seen, output, channels, sent, runner>>

\* A session with one story, finished or not, and max_iterations 1 has been
\* started, a subscriber is attached and the run-loop is about to poll.
InitHandlers ==
    \E passes \in BOOLEAN :
        LET stories == <<Story(StoryId(1), 1, passes)>>
            session == [NewSession(SessionConfig(1)) EXCEPT !.prd = SomePrd(stories)]
        IN  /\ sessions = [i \in {SessionId} |->
                              [session EXCEPT !.status = Running("initializing")]]
            /\ disk = SomePrd(stories)
            /\ activity_channels =
                  [i \in SessionIds |-> IF i = SessionId THEN <<<<>>>> ELSE <<>>]
            /\ loops = [l \in {MaxLoops} |->
                           [pc |-> "poll", session |-> session,
                            story_id |-> "", reason |-> <<>>]]
            /\ calls = [c \in CallIds |-> NoCall]
            /\ ret = NoReturn
            /\ UnitInit

NextHandlers ==
    \/ \E l \in DOMAIN loops : LoopStep(l)
    \/ \E l \in DOMAIN loops : iteration_start(l)
    \/ \E l \in DOMAIN loops : runner_callback(l)
    \/ \E l \in DOMAIN loops : runner_exit(l)
    \/ \E l \in DOMAIN loops : run_iteration_error(l)
    \/ \E l \in DOMAIN loops : iteration_tokens(l)
    \/ \E l \in DOMAIN loops : iteration_result(l)
    \/ \E h \in DOMAIN handlers : handler_parse(h)
    \/ \E h \in DOMAIN handlers : handler_broadcast(h)
    \/ \E h \in DOMAIN handlers : handler_signal(h)
    \/ \E l \in DOMAIN loops : story_complete_write_error(l)
    \/ \E l \in DOMAIN loops : rotate_update(l)
    \/ \E l \in DOMAIN loops : rotate_broadcast(l)
    \/ \E l \in DOMAIN loops : gutter_update(l)
    \/ \E l \in DOMAIN loops : gutter_broadcast(l)

SpecHandlers == InitHandlers /\ [][NextHandlers]_vars

\* ------------------------------- specification of the Iteration Runner
\* CursorRunner::run_iteration step by step, with the subprocess acting on
\* its own and the clock advancing.
TickLength == IterationTimeout \div 2

\* what the steps of the runner and of the subprocess leave alone
RunnerFrame ==
    /\ ret' = NoReturn
    /\ UNCHANGED <<disk, activity_channels, calls, parser, clock, seen, handlers,
                   gutter_signal, channels, sent>>

\* the subprocess closes its stdout and goes on running
child_close_stdout ==
    /\ runner.state = "running"
    /\ runner.stdout
    /\ runner' = [runner EXCEPT !.stdout = FALSE]
    /\ RunnerFrame
    /\ UNCHANGED <<sessions, loops, output>>

\* the subprocess exits with some status; its end of the pipe closes
child_exit ==
    /\ runner.state = "running"
    /\ \E code \in ExitCodes :
          runner' = [runner EXCEPT !.state = "exited", !.stdout = FALSE,
                                   !.exit_code = code]
    /\ RunnerFrame
    /\ UNCHANGED <<sessions, loops, output>>

\* reader.next_line() returns Ok(None): every line is read and the pipe is
\* closed.  The runner goes on to child.wait() under the timeout.
runner_eof(l) ==
    /\ At(l, "reading")
    /\ output = <<>>
    /\ ~runner.stdout
    /\ loops' = [loops EXCEPT ![l].pc = "waiting"]
    /\ runner' = [runner EXCEPT !.waiting = clock]
    /\ RunnerFrame
    /\ UNCHANGED <<sessions, output>>

\* reader.next_line() returns Err (a line that is not UTF-8): the loop is
\* left as at the end of the stream, the lines not yet read are dropped
runner_read_error(l) ==
    /\ At(l, "reading")
    /\ runner.stdout
    /\ output' = <<>>
    /\ loops' = [loops EXCEPT ![l].pc = "waiting"]
    /\ runner' = [runner EXCEPT !.waiting = clock]
    /\ RunnerFrame
    /\ UNCHANGED sessions

\* the process is shut down while the runner reads or waits: a message is
\* sent on the shutdown channel
shutdown_send ==
    /\ \E l \in DOMAIN loops : loops[l].pc \in {"reading", "waiting"}
    /\ ~runner.shutdown
    /\ runner' = [runner EXCEPT !.shutdown = TRUE]
    /\ RunnerFrame
    /\ UNCHANGED <<sessions, loops, output>>

\* shutdown_rx.recv() wins the select!, while reading or while waiting:
\* terminate() kills the subprocess and the runner returns Err.  The
\* select! polls its branches in random order, so the other branch, when it
\* is ready as well, can win instead: the steps of the other branch do not
\* ask whether a message is waiting.
runner_shutdown(l) ==
    /\ loops[l].pc \in {"reading", "waiting"}
    /\ runner.shutdown
    /\ runner' = IF runner.state = "running"
                 THEN [runner EXCEPT !.state = "killed", !.stdout = FALSE]
                 ELSE runner
    /\ LoopAbort(l)
    /\ RunnerFrame
    /\ UNCHANGED output

\* child.wait() returns within the timeout: Ok(()) on success, Err on a
\* non-zero exit status
runner_wait(l) ==
    /\ At(l, "waiting")
    /\ runner.state = "exited"
    /\ IF runner.exit_code = 0
       THEN loops' = [loops EXCEPT ![l].pc = "tokens"] /\ UNCHANGED sessions
       ELSE LoopAbort(l)
    /\ RunnerFrame
    /\ UNCHANGED <<runner, output>>

\* tokio::time::timeout(600 s, child.wait()) elapses: terminate() kills the
\* subprocess and the runner returns Err
runner_timeout(l) ==
    /\ At(l, "waiting")
    /\ runner.state = "running"
    /\ clock >= runner.waiting + IterationTimeout
    /\ runner' = [runner EXCEPT !.state = "killed", !.stdout = FALSE]
    /\ LoopAbort(l)
    /\ RunnerFrame
    /\ UNCHANGED output

\* time passes; a timer that is due fires before time passes beyond it
tick ==
    /\ clock < MaxTicks * TickLength
    /\ clock' = clock + TickLength
    /\ \A l \in DOMAIN loops :
          (At(l, "waiting") /\ runner.state = "running") =>
              clock' <= runner.waiting + IterationTimeout
    /\ ret' = NoReturn
    /\ UNCHANGED <<sessions, disk, activity_channels, loops, calls, parser, seen,
                   handlers, gutter_signal, output, channels, sent, runner>>

NextRunner ==
    \/ \E l \in DOMAIN loops : LoopStep(l)
    \/ \E l \in DOMAIN loops : iteration_start(l)
    \/ \E l \in DOMAIN loops : run_iteration_error(l)
    \/ child_close_stdout
    \/ child_exit
    \/ \E l \in DOMAIN loops : runner_callback(l)
    \/ \E l \in DOMAIN loops : runner_eof(l)
    \/ \E l \in DOMAIN loops : runner_read_error(l)
    \/ shutdown_send
    \/ \E l \in DOMAIN loops : runner_shutdown(l)
    \/ \E l \in DOMAIN loops : runner_wait(l)
    \/ \E l \in DOMAIN loops : runner_timeout(l)
    \/ tick
    \/ \E l \in DOMAIN loops : iteration_tokens(l)
    \/ \E l \in DOMAIN loops : iteration_result(l)
    \/ \E h \in DOMAIN handlers : handler_parse(h)
    \/ \E h \in DOMAIN handlers : handler_broadcast(h)
    \/ \E h \in DOMAIN handlers : handler_signal(h)
    \/ \E l \in DOMAIN loops : story_complete_write_error(l)
    \/ \E l \in DOMAIN loops : rotate_update(l)
    \/ \E l \in DOMAIN loops : rotate_broadcast(l)
    \/ \E l \in DOMAIN loops : gutter_update(l)
    \/ \E l \in DOMAIN loops : gutter_broadcast(l)

SpecRunner == InitHandlers /\ [][NextRunner]_vars

\* ------------------------------- specification of the counters' width
\* The token update of parse_activity with the counters at their width.  A
\* u32 is kept as its two 16-bit halves, value = hi * 2^16 + lo.
Half == 2 ^ (U32Bits \div 2)

U32(n) == [hi |-> n \div Half, lo |-> n % Half]
U32Max == [hi |-> Half - 1, lo |-> Half - 1]

\* whether a + b exceeds u32::MAX
OverflowsU32(a, b) == a.hi + b.hi + (a.lo + b.lo) \div Half >= Half

\* a + b as a build without overflow checks computes it
AddU32(a, b) ==
    [hi |-> (a.hi + b.hi + (a.lo + b.lo) \div Half) % Half,
     lo |-> (a.lo + b.lo) % Half]

LeqU32(a, b) == a.hi < b.hi \/ (a.hi = b.hi /\ a.lo <= b.lo)

\* the sub-counter a kind adds to and the amount it adds
CounterOf(kind) == IF kind.type = "shell" THEN "shell" ELSE kind.type
AmountOf(kind) == IF kind.type = "shell" THEN U32(ShellEstimate) ELSE kind.bytes

\* the two += of the match arm, wrapping
TokenUpdateWide(usage, kind) ==
    [usage EXCEPT ![CounterOf(kind)] = AddU32(@, AmountOf(kind)),
                  !.total = AddU32(@, AmountOf(kind))]

\* the thresholds against the total
ThresholdSignalWide(total, warn_threshold, rotate_threshold) ==
    IF LeqU32(U32(rotate_threshold), total) THEN SignalRotate
    ELSE IF LeqU32(U32(warn_threshold), total) THEN SignalWarn
    ELSE NoSignal

\* Read activities of 100, 2^31 and 2^32 - 1 bytes and a Shell activity
\* with exit code 0: none of them touches the gutter state
WideKinds ==
    {Read(Path, b) : b \in {U32(ShellEstimate), [hi |-> Half \div 2, lo |-> 0], U32Max}}
    \cup {Shell(Command, 0)}

WideFrame ==
    /\ ret' = NoReturn
    /\ UNCHANGED <<sessions, disk, activity_channels, loops, calls, clock,
                   handlers, gutter_signal, output, channels, sent, runner>>

\* parse_activity(kind) returns: no += overflows, or the build has no
\* overflow checks (the release profile) and the counters wrap
parse_wide(kind) ==
    /\ Len(seen) < MaxWide
    /\ LET usage == TokenUpdateWide(parser.token_usage, kind)
       IN  /\ parser' = [parser EXCEPT !.token_usage = usage]
           /\ seen' = Append(seen,
                  [kind |-> kind, usage |-> usage,
                   signal |-> ThresholdSignalWide(usage.total, parser.warn_threshold,
                                                  parser.rotate_threshold)])
    /\ WideFrame

\* parse_activity(kind) with overflow checks (the dev profile): the first +=
\* that overflows panics, the counters updated before it stay updated
parse_wide_panic(kind) ==
    /\ Len(seen) < MaxWide
    /\ OverflowsU32(parser.token_usage.total, AmountOf(kind))
    /\ parser' =
          IF OverflowsU32(parser.token_usage[CounterOf(kind)], AmountOf(kind))
          THEN parser
          ELSE [parser EXCEPT
                   !.token_usage[CounterOf(kind)] = AddU32(@, AmountOf(kind))]
    /\ seen' = Append(seen, [kind |-> kind, usage |-> parser.token_usage,
                             signal |-> [tag |-> "panic", arg |-> <<>>]])
    /\ WideFrame

\* StreamParser::new(0, TokenUsage::default(), 70_000, 80_000)
InitWide ==
    /\ ManagerInit
    /\ parser = [token_usage |-> [c \in DOMAIN TokenUsageDefault |-> U32(0)],
                 warn_threshold |-> WarnThreshold,
                 rotate_threshold |-> RotateThreshold]
    /\ clock = 0
    /\ seen = <<>>
    /\ handlers = <<>>
    /\ gutter_signal = <<>>
    /\ output = <<>>
    /\ channels = [i \in {} |-> <<>>]
    /\ sent = [i \in {} |-> <<>>]
    /\ runner = NoChild

NextWide ==
    \/ \E kind \in WideKinds : parse_wide(kind)
    \/ \E kind \in WideKinds : parse_wide_panic(kind)

SpecWide == InitWide /\ [][NextWide]_vars

\* ------------------------------------- specification of the output lines
\* The read loop of CursorRunner::run_iteration over lines of every sort.

\* a line of output: `text` is json for a line serde_json parses, blank for
\* a line that is empty after trim(), garbage for any other UTF-8 line and
\* invalid_utf8 for one that is not UTF-8; `value` is the object parsed
Line(text, value) == [text |-> text, value |-> value]
NoValue == [f \in {} |-> ""]

LineKinds ==
    {Line("json", [type |-> "read", path |-> Path, lines |-> 1, bytes |-> ShellEstimate]),
     Line("json", [type |-> "shell", command |-> Command, exit_code |-> 1]),
     Line("json", [type |-> "error", message |-> "boom"]),
     Line("json", [type |-> "write", path |-> Path, lines |-> 1]),
     Line("json", [type |-> "thinking"]),
     Line("json", [path |-> Path]),
     Line("blank", NoValue), Line("garbage", NoValue), Line("invalid_utf8", NoValue)}

LineInputs == UNION {[1..n -> LineKinds] : n \in 0..MaxLines}

\* the None of Option<ActivityEntry>
NoActivity == [type |-> "none", name |-> "", bytes |-> 0, exit_code |-> 0]

\* CursorRunner::parse_activity(json): every `?` returns None
runner_parse_activity(json) ==
    LET has(fields) == fields \subseteq DOMAIN json
    IN  IF ~has({"type"}) THEN NoActivity
        ELSE IF json.type = "read"
        THEN IF has({"path", "lines", "bytes"})
             THEN Read(json.path, json.bytes) ELSE NoActivity
        ELSE IF json.type = "write"
        THEN IF has({"path", "lines", "bytes"})
             THEN Write(json.path, json.bytes) ELSE NoActivity
        ELSE IF json.type = "shell"
        THEN IF has({"command", "exit_code"})
             THEN Shell(json.command, json.exit_code) ELSE NoActivity
        ELSE IF json.type = "error"
        THEN IF has({"message"}) THEN ErrorKind ELSE NoActivity
        ELSE NoActivity

\* StreamParser::new, gutter_signal = None, and the subprocess is spawned;
\* it will write the lines of one of LineInputs
lines_start(l) ==
    /\ At(l, "iteration")
    /\ parser' = ParserOf(loops[l].session)
    /\ gutter_signal' = <<>>
    /\ \E lines \in LineInputs :
          /\ output' = lines
          /\ runner' = [NoChild EXCEPT !.state = "running", !.stdout = TRUE,
                                       !.started = clock, !.lines = lines]
    /\ loops' = [loops EXCEPT ![l].pc = "reading"]
    /\ ret' = NoReturn
    /\ UNCHANGED <<sessions, disk, activity_channels, calls, clock, seen,
                   handlers, channels, sent>>

\* one reader.next_line(): Err leaves the loop with the line and those
\* after it unread; a blank line, a line that is not JSON and a record
\* parse_activity returns None for are passed over; for any other line the
\* callback spawns the task that will handle the activity
runner_line(l) ==
    /\ At(l, "reading")
    /\ output # <<>>
    /\ LET line == Head(output)
           activity == IF line.text = "json"
                       THEN runner_parse_activity(line.value) ELSE NoActivity
       IN  IF line.text = "invalid_utf8"
           THEN /\ loops' = [loops EXCEPT ![l].pc = "waiting"]
                /\ runner' = [runner EXCEPT !.waiting = clock]
                /\ UNCHANGED <<output, handlers>>
           ELSE /\ output' = Tail(output)
                /\ handlers' = IF activity = NoActivity THEN handlers
                               ELSE Append(handlers,
                                           NewHandler(loops[l].session.id, activity))
                /\ UNCHANGED <<loops, runner>>
    /\ ret' = NoReturn
    /\ UNCHANGED <<sessions, disk, activity_channels, calls, parser, clock, seen,
                   gutter_signal, channels, sent>>

NextLines ==
    \/ \E l \in DOMAIN loops : LoopStep(l)
    \/ \E l \in DOMAIN loops : lines_start(l)
    \/ \E l \in DOMAIN loops : runner_line(l)
    \/ child_close_stdout
    \/ child_exit
    \/ \E l \in DOMAIN loops : runner_eof(l)
    \/ \E l \in DOMAIN loops : runner_wait(l)
    \/ \E l \in DOMAIN loops : iteration_tokens(l)
    \/ \E l \in DOMAIN loops : iteration_result(l)
    \/ \E h \in DOMAIN handlers : handler_parse(h)
    \/ \E h \in DOMAIN handlers : handler_broadcast(h)

SpecLines == InitHandlers /\ [][NextLines]_vars

\* ----------------------------------------- specification of the spawn
\* spawn_with_retry(command, max_retries), one command.spawn() or one sleep
\* per step.

\* the errors command.spawn() returns: errors of the operating system with
\* the kind the standard library gives their code (ENOENT, EINTR, EAGAIN,
\* EACCES, EBUSY, ENFILE, EMFILE), and errors without a code
SpawnErrors ==
    {IoError("NotFound", 2), IoError("Interrupted", 4), IoError("WouldBlock", 11),
     IoError("PermissionDenied", 13), IoError("ResourceBusy", 16),
     IoError("Uncategorized", 23), IoError("Uncategorized", 24),
     IoError("InvalidInput", 0), IoError("WouldBlock", 0)}

\* the two matches! on e.kind() and on e.raw_os_error()
\* the first matches! alone
is_transient_KindOnly(e) ==
    e.kind \in {"WouldBlock", "ResourceBusy", "Interrupted"}

is_transient(e) ==
    LET by_kind == e.kind \in {"WouldBlock", "ResourceBusy", "Interrupted"}
    IN  by_kind \/ e.os \in {11, 24, 23}

\* 100 * 2u64.pow(attempt)
delay_ms(attempt) == BackoffBase * 2 ^ attempt

SpawnFrame ==
    /\ ret' = NoReturn
    /\ UNCHANGED <<sessions, disk, activity_channels, loops, calls, parser,
                   clock, seen, handlers, gutter_signal, output, channels, sent>>

\* command.spawn() returns Ok(child): the child is returned
spawn_ok ==
    /\ runner.state = "spawning"
    /\ runner' = [runner EXCEPT !.state = "running", !.stdout = TRUE,
                                !.started = clock]
    /\ SpawnFrame

\* command.spawn() returns Err(e): e is returned when it is not transient
\* or the attempt is the last one, otherwise it becomes last_error
spawn_err(e) ==
    /\ runner.state = "spawning"
    /\ runner' = IF ~is_transient(e) \/ runner.attempt = max_retries
                 THEN [runner EXCEPT !.state = "spawn_failed", !.error = e]
                 ELSE [runner EXCEPT !.state = "sleeping", !.last_error = e]
    /\ SpawnFrame

\* tokio::time::sleep(delay_ms), then the next attempt of the for loop
spawn_sleep ==
    /\ runner.state = "sleeping"
    /\ runner' = [runner EXCEPT !.state = "spawning",
                                !.slept = Append(@, delay_ms(runner.attempt)),
                                !.attempt = @ + 1]
    /\ SpawnFrame

\* the call spawn_with_retry(command, 3) of run_iteration
InitSpawn ==
    /\ ManagerInit
    /\ parser = StreamParserNew(0, TokenUsageDefault, WarnThreshold, RotateThreshold)
    /\ clock = 0
    /\ seen = <<>>
    /\ handlers = <<>>
    /\ gutter_signal = <<>>
    /\ output = <<>>
    /\ channels = [i \in {} |-> <<>>]
    /\ sent = [i \in {} |-> <<>>]
    /\ runner = [NoChild EXCEPT !.state = "spawning"]

NextSpawn ==
    \/ spawn_ok
    \/ \E e \in SpawnErrors : spawn_err(e)
    \/ spawn_sleep

SpecSpawn == InitSpawn /\ [][NextSpawn]_vars

\* ------------------------------------------ specifications of the parser
managerVars == <<sessions, disk, activity_channels, loops, calls, ret>>

\* thresholds a parser is created with: the defaults, which the tests of
\* parser.rs use, and a pair that Shell activities alone reach
ThresholdInputs ==
    {<<WarnThreshold, RotateThreshold>>, <<2 * ShellEstimate, 3 * ShellEstimate>>}

\* byte counts of a Read or Write: with the default thresholds they bring
\* the total just below warn_threshold, then to it, then to rotate_threshold
ByteInputs ==
    {ShellEstimate, WarnThreshold - ShellEstimate, RotateThreshold - WarnThreshold}

\* StreamParser::new(0, TokenUsage::default(), warn, rotate)
InitParse ==
    /\ ManagerInit
    /\ \E t \in ThresholdInputs :
          parser = StreamParserNew(0, TokenUsageDefault, t[1], t[2])
    /\ clock = IterationClock
    /\ seen = <<>>
    /\ handlers = <<>>
    /\ gutter_signal = <<>>
    /\ output = <<>>
    /\ channels = [i \in {} |-> <<>>]
    /\ sent = [i \in {} |-> <<>>]
    /\ runner = NoChild

\* one call parser.parse_activity(kind), dt seconds after the last one
parse(kind, dt) ==
    /\ clock' = clock + dt
    /\ LET r == parse_activity(parser, kind, clock')
       IN  /\ parser' = r.parser
           /\ seen' = Append(seen, [kind |-> kind, at |-> clock',
                                    usage |-> r.parser.token_usage,
                                    health |-> r.entry.health,
                                    signal |-> r.signal])
    /\ UNCHANGED <<managerVars, handlers, gutter_signal, output, channels, sent, runner>>

\* activities of every kind, all at the same instant
TokenKinds ==
    {Read(Path, b) : b \in ByteInputs} \cup {Write(Path, b) : b \in ByteInputs}
    \cup {Shell(Command, x) : x \in ExitCodes}
    \cup {TokenUpdateKind, SignalKind, ErrorKind}

NextTokens ==
    /\ Len(seen) < MaxParse
    /\ \E kind \in TokenKinds : parse(kind, 0)

SpecTokens == InitParse /\ [][NextTokens]_vars

\* Shell activities of two commands, failing or not
NextShells ==
    /\ Len(seen) < MaxShells
    /\ \E command \in Commands, x \in ExitCodes : parse(Shell(command, x), 0)

SpecShells == InitParse /\ [][NextShells]_vars

\* Write activities to two paths, the clock advancing between them by
\* nothing, a quarter or half of the ten minutes
ClockSteps == {0, ThrashWindow \div 4, ThrashWindow \div 2}

NextWrites ==
    /\ Len(seen) < MaxWrites
    /\ \E path \in Paths, dt \in ClockSteps : parse(Write(path, 0), dt)

SpecWrites == InitParse /\ [][NextWrites]_vars

\* failing Shell activities of one command and Write activities to one
\* path with and without bytes, all at the same instant
MixedKinds ==
    {Shell(Command, 1)} \cup {Write(Path, b) : b \in {0, ShellEstimate}}

NextMixed ==
    /\ Len(seen) < MaxMixed
    /\ \E kind \in MixedKinds : parse(kind, 0)

SpecMixed == InitParse /\ [][NextMixed]_vars

\* -------------------------------- specification of the activity channels
\* activity_channels with several sessions and receivers that go away

\* the receiving end of mpsc::unbounded_channel(): whether it still exists,
\* and the entries sent to it
Receiver == [connected |-> TRUE, queue |-> <<>>]

\* channels.get(session_id): the Vec of senders, empty when there is none
SendersOf(id) == IF id \in DOMAIN channels THEN channels[id] ELSE <<>>

SentTo(id) == IF id \in DOMAIN sent THEN sent[id] ELSE <<>>

RECURSIVE SumLen(_, _)
SumLen(f, ids) ==
    IF ids = {} THEN 0
    ELSE LET id == CHOOSE i \in ids : TRUE
         IN  Len(f[id]) + SumLen(f, ids \ {id})

\* for sender in senders { let _ = sender.send(entry.clone()); }
\* the loop leaving at the first send that fails
send_all_UntilError(senders, entry) ==
    [k \in DOMAIN senders |->
        IF \A j \in 1..k : senders[j].connected
        THEN [senders[k] EXCEPT !.queue = Append(@, entry)]
        ELSE senders[k]]

send_all(senders, entry) ==
    [k \in DOMAIN senders |->
        IF senders[k].connected
        THEN [senders[k] EXCEPT !.queue = Append(@, entry)]
        ELSE senders[k]]

\* subscribe_to_activity(session_id)
subscribe(id) ==
    /\ SumLen(channels, DOMAIN channels) < MaxReceivers
    /\ channels' = [i \in DOMAIN channels \cup {id} |->
                       IF i = id THEN Append(SendersOf(id), Receiver)
                       ELSE channels[i]]
    /\ UNCHANGED <<managerVars, parser, clock, seen, handlers, gutter_signal,
                   output, sent, runner>>

\* the subscriber drops its receiver
disconnect(id, k) ==
    /\ id \in DOMAIN channels
    /\ k \in DOMAIN channels[id]
    /\ channels[id][k].connected
    /\ channels' = [channels EXCEPT ![id][k].connected = FALSE]
    /\ UNCHANGED <<managerVars, parser, clock, seen, handlers, gutter_signal,
                   output, sent, runner>>

\* broadcast_activity(session_id, entry); the entries are numbered to tell
\* them apart
broadcast(id) ==
    /\ SumLen(sent, DOMAIN sent) < MaxBroadcasts
    /\ LET entry == SignalEntry(SumLen(sent, DOMAIN sent) + 1, SignalWarn, "Warning")
       IN  /\ channels' = [i \in DOMAIN channels |->
                              IF i = id THEN send_all(channels[i], entry)
                              ELSE channels[i]]
           /\ sent' = [i \in DOMAIN sent \cup {id} |->
                          IF i = id THEN Append(SentTo(id), entry) ELSE sent[i]]
    /\ UNCHANGED <<managerVars, parser, clock, seen, handlers, gutter_signal, output,
                   runner>>

NextBroadcast ==
    \/ \E id \in SessionIds : subscribe(id)
    \/ \E id \in SessionIds, k \in 1..MaxReceivers : disconnect(id, k)
    \/ \E id \in SessionIds : broadcast(id)

SpecBroadcast == Init /\ [][NextBroadcast]_vars

\* ------------------------------------------------------------------ claims
Registered == SessionId \in DOMAIN sessions
Record == sessions[SessionId]
Alive(l) == loops[l].pc \notin {"none", "done"}
Stepped(l) == loops'[l] # loops[l]
NoCallPending == \A c \in DOMAIN calls : calls[c] = NoCall
Unfinished(stories) == {i \in 1..Len(stories) : ~stories[i].passes}

\* the story the spec selects: minimum priority among the unfinished ones,
\* the earliest position among equal priorities; 0 when none is unfinished
Selected(stories) ==
    IF Unfinished(stories) = {} THEN 0
    ELSE CHOOSE i \in Unfinished(stories) :
            \A j \in Unfinished(stories) :
                \/ stories[i].priority < stories[j].priority
                \/ stories[i].priority = stories[j].priority /\ i <= j

\* a loop that is running an iteration or applying its StoryComplete or
\* Rotate result
ResultPcs ==
    {"iteration", "story_complete", "story_complete_update",
     "story_complete_broadcast", "rotate", "rotate_broadcast"}

\* C1: once pause_session or stop_session has set Paused/Idle while an
\* iteration is in flight, no step of the run-loop changes the status, and
\* the loop's next poll ends the loop: no further iteration starts.
C1_PauseStopsLoop ==
    [][\A l \in DOMAIN loops :
         (Registered /\ IdleOrPaused(Record.status) /\ Stepped(l)) =>
            /\ loops[l].pc \in ResultPcs => sessions'[SessionId].status = Record.status
            /\ (loops[l].pc = "poll" /\ LoopCondition(loops[l].session)) =>
                  /\ loops'[l].pc = "done"
                  /\ sessions'[SessionId].status = Record.status]_vars

\* C2: a start_session call goes on to spawn the run-loop only if the status
\* is Idle or Paused and the PRD has at least one story; in every other
\* state it returns InvalidState, spawns nothing and changes no record.
StartAllowed ==
    /\ Record.status.tag \notin
          {"Running", "Gutter", "Complete", "Failed", "WaitingForRotation"}
    /\ Record.prd.some
    /\ Len(Record.prd.stories) >= 1

C2_StartPrecondition ==
    [][/\ \A c \in DOMAIN calls :
             (Registered /\ start_session(c, SessionId)) =>
                IF StartAllowed
                THEN /\ calls'[c].op = "start_session"
                     /\ calls'[c].session.status = Running("initializing")
                     /\ \E l \in DOMAIN loops : loops[l] = NoLoop /\ loops'[l].pc = "poll"
                ELSE /\ ret' = Returned("start_session", "InvalidState")
                     /\ UNCHANGED <<sessions, disk, activity_channels, loops, calls>>
       /\ (\E l \in DOMAIN loops : loops[l] = NoLoop /\ loops'[l] # NoLoop) =>
             Registered /\ StartAllowed]_vars

C2_Witness ==
    /\ Registered
    /\ ret = Returned("start_session", "InvalidState")
    /\ Record.status = Idle
    /\ Record.prd = SomePrd(<<>>)

\* C3: with no pause and no stop, a started session with an unfinished story
\* and iterations left is not left at Running{"initializing"}: while it has
\* that status, the run-loop or the start call is still there to replace it.
C3_LeavesInitializing ==
    (/\ Registered
     /\ Record.status = Running("initializing")
     /\ Unfinished(Record.prd.stories) # {}
     /\ Record.current_iteration < Record.config.max_iterations)
    => \/ \E l \in DOMAIN loops : Alive(l)
       \/ \E c \in DOMAIN calls : calls[c].op = "start_session"

\* the StoryComplete entries of a quiet run over stories, in selection order
RECURSIVE QuietEntries(_, _, _)
QuietEntries(stories, iteration, usage) ==
    IF Selected(stories) = 0
    THEN <<SignalEntry(iteration, SignalComplete,
                       health(usage, WarnThreshold, RotateThreshold))>>
    ELSE <<SignalEntry(iteration + 1,
                       SignalStoryComplete(stories[Selected(stories)].id),
                       health(usage, WarnThreshold, RotateThreshold))>>
         \o QuietEntries([stories EXCEPT ![Selected(stories)].passes = TRUE],
                         iteration + 1, usage)

\* C4: a started session with N >= 1 unfinished stories, max_iterations > N
\* and a runner that always succeeds without activity ends with: the
\* subscriber holding N StoryComplete entries in selection order and then one
\* Complete, every story passed, current_iteration = N, status Complete.
C4_QuietRunCompletes ==
    (/\ Registered
     /\ \A l \in DOMAIN loops : loops[l].pc = "done"
     /\ NoCallPending
     /\ Len(activity_channels[SessionId]) = 1
     /\ Len(Record.prd.stories) >= 1
     /\ Record.config.max_iterations > Len(Record.prd.stories))
    => /\ activity_channels[SessionId][1] =
            QuietEntries(StoriesOfLen(Len(Record.prd.stories)), 0, TokenUsageDefault)
       /\ Unfinished(Record.prd.stories) = {}
       /\ Record.current_iteration = Len(Record.prd.stories)
       /\ Record.status = Complete

\* C5: the story the run-loop works on is the unfinished story of minimum
\* priority, the earliest in the list among equals; a passed story is never
\* selected, and with no unfinished story the loop goes to Complete without
\* running an iteration.
C5_SelectsMinPriority ==
    \A l \in DOMAIN loops :
        LET stories == loops[l].session.prd.stories
        IN  /\ loops[l].pc \in {"running", "iteration"} =>
                  /\ Selected(stories) # 0
                  /\ loops[l].story_id = stories[Selected(stories)].id
                  /\ ~stories[Selected(stories)].passes
                  /\ loops[l].session.status = Running(loops[l].story_id)
            /\ loops[l].pc \in {"complete", "complete_broadcast"} =>
                  Unfinished(stories) = {}

C5_Witness ==
    \E l \in DOMAIN loops :
        LET stories == loops[l].session.prd.stories
        IN  /\ loops[l].pc = "iteration"
            /\ Len(stories) = 3
            /\ stories[1].passes /\ stories[1].priority = 1
            /\ ~stories[2].passes /\ stories[2].priority = 2
            /\ ~stories[3].passes /\ stories[3].priority = 2
            /\ loops[l].story_id = stories[2].id

\* C6: in the registry record a story's passes never goes back from true to
\* false while the story keeps its place and id.
C6_PassesNeverReverts ==
    [][\A i \in 1..MaxStories :
         (/\ Registered
          /\ i <= Len(Record.prd.stories)
          /\ Record.prd.stories[i].passes
          /\ i <= Len(sessions'[SessionId].prd.stories)
          /\ sessions'[SessionId].prd.stories[i].id = Record.prd.stories[i].id)
         => sessions'[SessionId].prd.stories[i].passes]_vars

\* C7: once the registry status is Complete or Failed, no step changes it.
C7_TerminalStatus ==
    [][(Registered /\ Record.status.tag \in {"Complete", "Failed"}) =>
          sessions'[SessionId].status = Record.status]_vars

\* what a broadcast of entry leaves in the channels
Delivered(entry) ==
    /\ Len(activity_channels'[SessionId]) = Len(activity_channels[SessionId])
    /\ \A k \in DOMAIN activity_channels[SessionId] :
          activity_channels'[SessionId][k] = Append(activity_channels[SessionId][k], entry)

\* C8: on a Gutter result the run-loop writes status Gutter{reason} with the
\* story still unfinished and current_iteration as it was, broadcasts one
\* Gutter entry and ends; start_session on a session in Gutter status returns
\* InvalidState and spawns nothing.
C8_GutterStops ==
    [][/\ \A l \in DOMAIN loops :
            /\ (At(l, "iteration") /\ loops'[l].pc = "gutter") =>
                  /\ loops'[l].session.prd = loops[l].session.prd
                  /\ loops'[l].session.current_iteration = loops[l].session.current_iteration
                  /\ loops'[l].reason # <<>>
            /\ (At(l, "gutter") /\ Stepped(l)) =>
                  /\ sessions'[SessionId].status = Gutter(loops[l].reason)
                  /\ sessions'[SessionId].prd = loops[l].session.prd
                  /\ \E i \in Unfinished(sessions'[SessionId].prd.stories) :
                        sessions'[SessionId].prd.stories[i].id = loops[l].story_id
                  /\ sessions'[SessionId].current_iteration = loops[l].session.current_iteration
                  /\ loops'[l].pc = "gutter_broadcast"
                  /\ UNCHANGED activity_channels
            /\ (At(l, "gutter_broadcast") /\ Stepped(l)) =>
                  /\ Delivered(SignalEntry(loops[l].session.current_iteration,
                                           SignalGutter(loops[l].reason),
                                           SessionHealth(loops[l].session)))
                  /\ loops'[l].pc = "done"
                  /\ UNCHANGED sessions
            /\ loops[l].pc = "done" => loops'[l].pc = "done"
       /\ \A c \in DOMAIN calls :
            (Registered /\ Record.status.tag = "Gutter" /\ start_session(c, SessionId)) =>
                /\ ret' = Returned("start_session", "InvalidState")
                /\ UNCHANGED <<sessions, loops, calls>>]_vars

C8_Witness ==
    /\ Registered
    /\ Record.status = Gutter(CommandFailedReason(Command, gutter_fail_count))
    /\ \A l \in DOMAIN loops : loops[l].pc = "done"
    /\ Len(activity_channels[SessionId]) = 1
    /\ activity_channels[SessionId][1] # <<>>
    /\ activity_channels[SessionId][1][Len(activity_channels[SessionId][1])].kind.tag = "Gutter"
    /\ ret = Returned("start_session", "InvalidState")

\* C9: no iteration starts with current_iteration >= max_iterations, so
\* current_iteration <= max_iterations in the registry and in every copy;
\* a loop that leaves because the cap is reached writes
\* Failed{"Max iterations reached"}.
C9_IterationCap ==
    [][/\ Registered' =>
             sessions'[SessionId].current_iteration
                <= sessions'[SessionId].config.max_iterations
       /\ \A l \in DOMAIN loops :
            /\ loops'[l].session.current_iteration
                  <= loops'[l].session.config.max_iterations
            /\ loops'[l].pc \in {"running", "iteration"} =>
                  loops'[l].session.current_iteration
                     < loops'[l].session.config.max_iterations
            /\ (At(l, "poll") /\ Stepped(l)
                  /\ loops[l].session.current_iteration
                        >= loops[l].session.config.max_iterations) =>
                  /\ sessions'[SessionId].status = Failed("Max iterations reached")
                  /\ loops'[l].pc = "done"]_vars

C9_Witness ==
    /\ Registered
    /\ Record.status = Failed("Max iterations reached")
    /\ Record.config.max_iterations > 0
    /\ Record.current_iteration = Record.config.max_iterations

\* C10: an iteration that ends without Gutter and with total >=
\* rotate_threshold results in Rotate, not StoryComplete; the Rotate arm
\* leaves the selected story unfinished, adds exactly 1 to current_iteration,
\* sets every TokenUsage counter to 0 and broadcasts Rotate with Critical
\* health.
C10_RotateAtThreshold ==
    [][\A l \in DOMAIN loops :
         /\ (At(l, "iteration") /\ Stepped(l)
               /\ loops'[l].pc \notin {"gutter", "done"}
               /\ loops'[l].session.token_usage.total
                     >= loops'[l].session.config.rotate_threshold) =>
               loops'[l].pc = "rotate"
         /\ (At(l, "iteration") /\ loops'[l].pc = "rotate") =>
               loops'[l].session.token_usage.total
                  >= loops'[l].session.config.rotate_threshold
         /\ (At(l, "rotate") /\ Stepped(l)) =>
               LET after == sessions'[SessionId]
               IN  /\ after = loops'[l].session
                   /\ after.prd = loops[l].session.prd
                   /\ \E i \in Unfinished(after.prd.stories) :
                         after.prd.stories[i].id = loops[l].story_id
                   /\ after.current_iteration = loops[l].session.current_iteration + 1
                   /\ after.token_usage.total = 0
                   /\ after.token_usage.read = 0
                   /\ after.token_usage.write = 0
                   /\ after.token_usage.assistant = 0
                   /\ after.token_usage.shell = 0
                   /\ loops'[l].pc = "rotate_broadcast"
         /\ (At(l, "rotate_broadcast") /\ Stepped(l)) =>
               /\ Delivered(SignalEntry(loops[l].session.current_iteration,
                                        SignalRotate, "Critical"))
               /\ loops'[l].pc = "poll"
               /\ UNCHANGED sessions]_vars

C10_Witness ==
    \E l \in DOMAIN loops :
        /\ At(l, "rotate")
        /\ loops[l].session.token_usage.total = loops[l].session.config.rotate_threshold
        /\ Len(activity_channels[SessionId]) = 1

\* the calls seen so far that satisfy P
Calls(P(_)) == {i \in 1..Len(seen) : P(seen[i])}

RECURSIVE SumBytes(_, _)
SumBytes(type, n) ==
    IF n = 0 THEN 0
    ELSE SumBytes(type, n - 1) + (IF seen[n].kind.type = type THEN seen[n].kind.bytes ELSE 0)

IsShell(call) == call.kind.type = "shell"

C16_HealthByThresholds ==
    \A i \in 1..Len(seen) :
        LET total == seen[i].usage.total
        IN  seen[i].health =
                IF total < parser.warn_threshold THEN "Healthy"
                ELSE IF total >= parser.rotate_threshold THEN "Critical"
                ELSE "Warning"

\* C17: when no gutter condition fires, parse_activity returns Rotate iff
\* the updated total >= rotate_threshold, Warn iff warn_threshold <= total <
\* rotate_threshold, and no signal iff total < warn_threshold.
C17_ThresholdSignals ==
    \A i \in 1..Len(seen) :
        LET total == seen[i].usage.total
            signal == seen[i].signal
        IN  signal.tag # "Gutter" =>
                /\ signal = SignalRotate <=> total >= parser.rotate_threshold
                /\ signal = SignalWarn <=>
                      (parser.warn_threshold <= total /\ total < parser.rotate_threshold)
                /\ signal = NoSignal <=> total < parser.warn_threshold

C17_Witness ==
    /\ \E i \in 1..Len(seen) :
          seen[i].signal = SignalWarn /\ seen[i].usage.total = parser.warn_threshold
    /\ \E i \in 1..Len(seen) :
          seen[i].signal = SignalRotate /\ seen[i].usage.total = parser.rotate_threshold

\* the failures of the command of call i among the calls up to i
FailuresUpTo(i) ==
    Cardinality({j \in 1..i : /\ seen[j].kind.type = "shell"
                              /\ seen[j].kind.name = seen[i].kind.name
                              /\ seen[j].kind.exit_code # 0})

\* C18: on a fresh parser the 1st and 2nd failure of a command return no
\* Gutter, the 3rd returns Gutter naming the command and the count 3;
\* failures are counted per command string, and a Shell activity with exit
\* code 0 never returns Gutter.
C18_GutterOnThirdFailure ==
    \A i \in 1..Len(seen) :
        LET call == seen[i]
        IN  /\ call.kind.exit_code = 0 => call.signal.tag # "Gutter"
            /\ (call.kind.exit_code # 0 /\ FailuresUpTo(i) < 3) =>
                    call.signal.tag # "Gutter"
            /\ (call.kind.exit_code # 0 /\ FailuresUpTo(i) = 3) =>
                    call.signal = SignalGutter(CommandFailedReason(call.kind.name, 3))

C18_Witness ==
    /\ Len(seen) = 5
    /\ seen[1].kind = Shell(Command, 1)
    /\ seen[2].kind = Shell("cargo build", 1)
    /\ seen[3].kind = Shell(Command, 1)
    /\ seen[4].kind = Shell(Command, 0)
    /\ seen[5].kind = Shell(Command, 1)
    /\ seen[5].signal = SignalGutter(CommandFailedReason(Command, 3))

\* the writes to the path of call i, up to and counting call i, made less
\* than ten minutes before it
WritesInWindow(i) ==
    Cardinality({j \in 1..i : /\ seen[j].kind.name = seen[i].kind.name
                              /\ seen[i].at - seen[j].at < 600})

\* C19: a Write to path p returns a thrashing Gutter iff, counting that
\* write, at least 5 writes to p lie within the last ten minutes; writes to
\* other paths do not count.
C19_ThrashingWindow ==
    \A i \in 1..Len(seen) :
        IF WritesInWindow(i) >= 5
        THEN seen[i].signal =
                SignalGutter(FileThrashingReason(seen[i].kind.name, WritesInWindow(i)))
        ELSE seen[i].signal.tag # "Gutter"

\* five writes to one path that span the ten minutes return no Gutter, and
\* the sixth, the fifth inside the window, returns it
C19_Witness ==
    /\ Len(seen) = 6
    /\ \A i \in 1..6 : seen[i].kind.name = Path
    /\ seen[5].at - seen[1].at = ThrashWindow
    /\ \A i \in 1..5 : seen[i].signal.tag # "Gutter"
    /\ seen[6].signal = SignalGutter(FileThrashingReason(Path, 5))

\* C20: create_session admits a session only if the project path exists
\* and contains a .git entry; otherwise it returns an error (Io for a
\* missing path, Git for a path without .git) and leaves the registry
\* unchanged.  The admitted session has status Idle, no PRD,
\* current_iteration 0 and all-zero token usage, and get_session and
\* list_sessions return a session of that id from then on.
C20_CreateAdmitsGitRepos ==
    [][/\ ret'.op = "create_session" =>
            LET project_path == ret'.arg
            IN  /\ ret'.res = "Ok" =>
                      /\ PathExists(project_path) /\ HasGitEntry(project_path)
                      /\ SessionId \notin DOMAIN sessions
                      /\ SessionId \in DOMAIN sessions'
                      /\ sessions'[SessionId].project_path = project_path
                      /\ sessions'[SessionId].status = Idle
                      /\ sessions'[SessionId].prd = NoPrd
                      /\ sessions'[SessionId].current_iteration = 0
                      /\ sessions'[SessionId].token_usage =
                            [total |-> 0, read |-> 0, write |-> 0,
                             assistant |-> 0, shell |-> 0]
                /\ ret'.res # "Ok" => sessions' = sessions
                /\ ~PathExists(project_path) => ret'.res = "Io"
                /\ (PathExists(project_path) /\ ~HasGitEntry(project_path)) =>
                      ret'.res = "Git"
       /\ SessionId \in DOMAIN sessions =>
            /\ SessionId \in DOMAIN sessions'
            /\ sessions'[SessionId] \in list_sessions']_vars

\* the session was admitted and the run-loop has since changed its record
C20_Witness ==
    /\ SessionId \in DOMAIN sessions
    /\ get_session(SessionId) \in list_sessions
    /\ get_session(SessionId).status = Complete

\* the PRD shows the story of that id as passed
Passed(prd, story_id) ==
    /\ prd.some
    /\ \E i \in 1..Len(prd.stories) :
          prd.stories[i].id = story_id /\ prd.stories[i].passes

\* C13: when the run-loop broadcasts StoryComplete(s), the PRD on disk and
\* the session record of the registry already show story s as passed and
\* the registry has the incremented current_iteration; when the disk write
\* of the StoryComplete arm fails, the loop broadcasts nothing.
C13_PersistedBeforeBroadcast ==
    [][\A l \in DOMAIN loops :
          /\ (At(l, "story_complete_broadcast") /\ Stepped(l)) =>
                /\ Passed(disk, loops[l].story_id)
                /\ Passed(Record.prd, loops[l].story_id)
                /\ Record.current_iteration = loops[l].session.current_iteration
          /\ (At(l, "story_complete") /\ loops'[l] = DoneLoop) =>
                activity_channels' = activity_channels]_vars

\* queue is sent from some entry on, up to some entry
IsSegment(queue, entries) ==
    \E first \in 1..(Len(entries) + 1) :
        /\ first + Len(queue) - 1 <= Len(entries)
        /\ \A i \in 1..Len(queue) : queue[i] = entries[first + i - 1]

IsSuffix(queue, entries) ==
    /\ Len(queue) <= Len(entries)
    /\ \A i \in 1..Len(queue) : queue[i] = entries[Len(entries) - Len(queue) + i]

C11_GutterHasPriority ==
    \A l \in DOMAIN loops :
        /\ loops[l].pc \in {"rotate", "story_complete"} =>
              \A h \in DOMAIN handlers : handlers[h].signal.tag # "Gutter"
        /\ loops[l].pc = "rotate" =>
              loops[l].session.token_usage.total >= loops[l].session.config.rotate_threshold
        /\ loops[l].pc = "story_complete" =>
              loops[l].session.token_usage.total < loops[l].session.config.rotate_threshold

\* the kinds of the activity entries among the entries a subscriber holds
RECURSIVE ActivityKindsOf(_)
ActivityKindsOf(entries) ==
    IF entries = <<>> THEN <<>>
    ELSE IF "type" \in DOMAIN Head(entries).kind
         THEN <<Head(entries).kind>> \o ActivityKindsOf(Tail(entries))
         ELSE ActivityKindsOf(Tail(entries))

\* the activities the subprocess has emitted so far, in order
Emitted == [h \in DOMAIN handlers |-> handlers[h].kind]

IsPrefix(a, b) == Len(a) <= Len(b) /\ \A i \in 1..Len(a) : a[i] = b[i]

\* C12: every subscriber receives the activity entries of an iteration in
\* the order in which the subprocess emitted them, and none of them after
\* the StoryComplete, Rotate or Gutter entry of that iteration.
C12_ActivityOrder ==
    \A k \in DOMAIN activity_channels[SessionId] :
        /\ IsPrefix(ActivityKindsOf(activity_channels[SessionId][k]), Emitted)
        /\ \A i, j \in DOMAIN activity_channels[SessionId][k] :
              (i < j /\ "tag" \in DOMAIN activity_channels[SessionId][k][i].kind) =>
                  "tag" \in DOMAIN activity_channels[SessionId][k][j].kind

\* the effects a call can have
CallEffects == <<sessions, disk, activity_channels, loops, calls>>

\* C21: get_session, start_session, pause_session, stop_session and set_prd
\* on an id that is not in the registry return SessionNotFound and change
\* neither the registry nor the PRD file nor any task; no such call goes
\* past its lookup, and SessionNotFound is returned for unknown ids only.
C21_UnknownIdNotFound ==
    [][/\ ret'.res = "SessionNotFound" =>
            /\ ret'.op \in {"get_session", "start_session", "pause_session",
                            "stop_session", "set_prd"}
            /\ ret'.arg \notin DOMAIN sessions
            /\ DOMAIN sessions' = DOMAIN sessions
            /\ \A i \in DOMAIN sessions : sessions'[i] = sessions[i]
            /\ disk' = disk
            /\ UNCHANGED CallEffects
       /\ \A id \in SessionIds \ DOMAIN sessions : \A c \in DOMAIN calls :
            ~(\/ start_session(c, id) \/ pause_session(c, id)
              \/ stop_session(c, id) \/ set_prd(c, id))]_vars

\* set_prd on an unknown id returned SessionNotFound while the session of
\* another id, started and with its PRD on disk, stays as it was
C21_Witness ==
    /\ ret = [op |-> "set_prd", res |-> "SessionNotFound", arg |-> "s2"]
    /\ Registered
    /\ Record.status.tag = "Running"
    /\ disk = Record.prd
    /\ disk.some

\* C22: whenever the registry status of the session is Running{..}, a
\* run-loop task of the session is alive: about to poll, running an
\* iteration or applying its result.
C22_RunningHasLoop ==
    (Registered /\ Record.status.tag = "Running") =>
        \E l \in DOMAIN loops : Alive(l) /\ loops[l].session.id = SessionId

\* the entries a step appends to the queue of some subscriber
Appended ==
    UNION {{activity_channels'[SessionId][k][n] :
               n \in (Len(activity_channels[SessionId][k]) + 1)
                      ..Len(activity_channels'[SessionId][k])} :
           k \in DOMAIN activity_channels[SessionId]}

\* C23: when the Iteration Runner fails (spawn failure, shutdown, timeout
\* or non-zero exit), the run-loop ends without touching the registry, the
\* PRD file or the channels: the story is not passed, current_iteration is
\* as it was and the status is the Running{story_id} written before the
\* iteration, not Failed.  The loop runs nothing afterwards, and no
\* StoryComplete, Rotate, Gutter or Complete entry is broadcast after it.
C23_RunnerFailureAborts ==
    [][\A l \in DOMAIN loops :
          /\ (loops[l].pc \in {"iteration", "reading", "waiting"}
                /\ loops'[l].pc = "done") =>
                /\ sessions' = sessions
                /\ Record.status = Running(loops[l].story_id)
                /\ Record.current_iteration = loops[l].session.current_iteration
                /\ ~Passed(Record.prd, loops[l].story_id)
                /\ disk' = disk
                /\ activity_channels' = activity_channels
          /\ loops[l].pc = "done" =>
                /\ loops'[l].pc = "done"
                /\ sessions' = sessions
                /\ disk' = disk
                /\ \A entry \in Appended : "type" \in DOMAIN entry.kind]_vars

\* the runner waited ten minutes for the subprocess and gave up, the loop
\* is gone, the status is still Running, and a task of the iteration has
\* broadcast its activity entry since
C23_Witness ==
    /\ runner.state = "killed"
    /\ clock = runner.waiting + IterationTimeout
    /\ \A l \in DOMAIN loops : loops[l].pc = "done"
    /\ Record.status = Running(StoryId(1))
    /\ Len(activity_channels[SessionId][1]) = 1

\* C24: while the subprocess neither exits nor closes its stdout, the
\* iteration lasts at most the 10 minutes of the timeout: the timer fires
\* when it is due, so no state has the runner still reading or waiting more
\* than 10 minutes after the iteration started.
C24_IterationBounded ==
    \A l \in DOMAIN loops :
        (/\ loops[l].pc \in {"reading", "waiting"}
         /\ runner.state = "running"
         /\ runner.stdout)
        => clock - runner.started <= IterationTimeout

\* the fields of a session record that create_session sets for good
Fixed(session) ==
    <<session.id, session.project_path, session.created_at,
      session.config.prd_model, session.config.execution_model,
      session.config.max_iterations, session.config.warn_threshold,
      session.config.rotate_threshold, session.config.branch_name,
      session.config.open_pr>>

\* C25: the config, id, project_path and created_at of a session record
\* are those create_session was given: the record it inserts has the id
\* and path of the call, and no later step (start, pause, stop, set_prd, a
\* write of the run-loop) changes any of these fields.
C25_ConfigImmutable ==
    [][/\ (~Registered /\ Registered') =>
            /\ ret' = CreateReturned("Ok", sessions'[SessionId].project_path)
            /\ sessions'[SessionId].id = SessionId
            /\ sessions'[SessionId].created_at = clock
            /\ \E max_iterations \in 0..MaxIterations :
                  sessions'[SessionId].config = SessionConfig(max_iterations)
       /\ Registered => Fixed(sessions'[SessionId]) = Fixed(Record)]_vars

\* the record has been written by set_prd, start_session, the run-loop
\* and last by pause_session
C25_Witness ==
    /\ Registered
    /\ ret = Returned("pause_session", "Ok")
    /\ Record.status = Paused
    /\ Record.current_iteration = 1
    /\ Record.prd.some
    /\ Record.config.max_iterations = MaxIterations

\* the sessions whose call or run-loop takes the step
Actors ==
    {loops[l].session.id : l \in {k \in DOMAIN loops : Stepped(k) /\ Alive(k)}}
    \cup {loops'[l].session.id :
             l \in {k \in DOMAIN loops : Stepped(k) /\ loops[k] = NoLoop}}
    \cup {calls[c].session.id :
             c \in {k \in DOMAIN calls : calls'[k] # calls[k] /\ calls[k] # NoCall}}
    \cup {calls'[c].session.id :
             c \in {k \in DOMAIN calls : calls'[k] # calls[k] /\ calls[k] = NoCall}}

\* C26: a step of a call or of the run-loop of one session leaves the
\* registry record of every other session unchanged and sends nothing to
\* the subscribers of any other session, however the steps of two sessions
\* interleave.
C26_SessionsIndependent ==
    [][/\ Cardinality(Actors) <= 1
       /\ \A other \in SessionIds \ Actors :
            /\ sessions'[other] = sessions[other]
            /\ activity_channels'[other] = activity_channels[other]]_vars

\* both run-loops have run, side by side: one session ended on a Gutter
\* and its subscriber holds the Gutter entry only, the other completed its
\* story and its subscriber holds the StoryComplete entry only
C26_Witness ==
    /\ \A l \in DOMAIN loops : loops[l].pc = "done"
    /\ sessions[SessionId].status.tag = "Gutter"
    /\ Len(activity_channels[SessionId][1]) = 1
    /\ activity_channels[SessionId][1][1].kind.tag = "Gutter"
    /\ sessions["s2"].status.tag = "Failed"
    /\ sessions["s2"].current_iteration = 1
    /\ Len(activity_channels["s2"][1]) = 1
    /\ activity_channels["s2"][1][1].kind.tag = "StoryComplete"

\* the total before call i
TotalBefore(i) == IF i = 1 THEN 0 ELSE seen[i - 1].usage.total

\* the signals of Option<Signal>
OneSignal(signal) ==
    signal.tag \in {"None", "Warn", "Rotate", "Gutter", "Complete", "StoryComplete"}

\* C27: a failing Shell activity that brings the failure count of its
\* command to fail_count or beyond, and a Write that brings the window
\* count of its path to thrash_count or beyond, return Gutter whatever the
\* total is after the call, also when the call brings the total to
\* warn_threshold or rotate_threshold; the call returns that one signal and
\* has added the estimate or the bytes of the activity to the counters.
C27_GutterBeforeThresholds ==
    \A i \in 1..Len(seen) :
        LET call == seen[i]
        IN  /\ (call.kind.type = "shell" /\ call.kind.exit_code # 0
                  /\ FailuresUpTo(i) >= gutter_fail_count) =>
                    call.signal =
                        SignalGutter(CommandFailedReason(call.kind.name, FailuresUpTo(i)))
            /\ (call.kind.type = "write" /\ WritesInWindow(i) >= gutter_thrash_count) =>
                    call.signal =
                        SignalGutter(FileThrashingReason(call.kind.name, WritesInWindow(i)))
            /\ OneSignal(call.signal)
            /\ call.usage.total =
                    TotalBefore(i) + (IF call.kind.type = "shell" THEN ShellEstimate
                                      ELSE call.kind.bytes)

\* the third failure of a command brings the total from warn_threshold to
\* rotate_threshold, and the fifth write to a path comes with the total at
\* or above rotate_threshold: both calls return Gutter
C27_Witness ==
    /\ \E i \in 1..Len(seen) :
          /\ seen[i].signal = SignalGutter(CommandFailedReason(Command, 3))
          /\ TotalBefore(i) = parser.warn_threshold
          /\ seen[i].usage.total = parser.rotate_threshold
    /\ \E i \in 1..Len(seen) :
          /\ seen[i].signal = SignalGutter(FileThrashingReason(Path, 5))
          /\ seen[i].usage.total >= parser.rotate_threshold

\* C28: the failure count of a command is never reset: it is the number of
\* failing Shell activities of the command the parser has seen, and every
\* failure from the gutter_fail_count-th on returns Gutter with that number
\* in the message, one more than the failure before.
C28_GutterFiresAgain ==
    /\ \A i \in 1..Len(seen) :
          LET call == seen[i]
          IN  (call.kind.exit_code # 0 /\ FailuresUpTo(i) >= gutter_fail_count) =>
                  call.signal =
                      SignalGutter(CommandFailedReason(call.kind.name, FailuresUpTo(i)))
    /\ \A command \in Commands :
          parser.command_failures[command] =
              Cardinality({j \in 1..Len(seen) : /\ seen[j].kind.name = command
                                                /\ seen[j].kind.exit_code # 0})

\* a command fails three times, succeeds once and fails again: the third
\* and the fourth failure return Gutter, counting 3 and 4
C28_Witness ==
    /\ Len(seen) = 5
    /\ \A i \in {1, 2, 3, 5} : seen[i].kind = Shell(Command, 1)
    /\ seen[4].kind = Shell(Command, 0)
    /\ seen[3].signal = SignalGutter(CommandFailedReason(Command, 3))
    /\ seen[5].signal = SignalGutter(CommandFailedReason(Command, 4))

\* the failures of the command of call i since its last execution with exit
\* code 0, up to and counting call i
ConsecutiveUpTo(i) ==
    LET same == {j \in 1..i : seen[j].kind.name = seen[i].kind.name}
        ok == {j \in same : seen[j].kind.exit_code = 0}
    IN  Cardinality({j \in same : \A k \in ok : k < j})

\* C29: a Shell activity returns Gutter only when the last gutter_fail_count
\* executions of its command all failed: an execution with exit code 0
\* starts the count again.
C29_ConsecutiveFailures ==
    \A i \in 1..Len(seen) :
        seen[i].signal.tag = "Gutter" => ConsecutiveUpTo(i) >= gutter_fail_count

\* C30: once the run-loop has stopped with every story of the PRD passed,
\* the status in the registry is Complete, not Failed, also when the last
\* story passed on the iteration that brought current_iteration to
\* max_iterations.
C30_AllPassedIsComplete ==
    (/\ Registered
     /\ \A l \in DOMAIN loops : loops[l].pc = "done"
     /\ Unfinished(Record.prd.stories) = {})
    => Record.status = Complete

\* the errors the spec calls transient
Transient(e) ==
    \/ e.kind \in {"WouldBlock", "ResourceBusy", "Interrupted"}
    \/ e.os \in {11, 23, 24}

\* command.spawn() calls made so far by spawn_with_retry
Attempts ==
    IF runner.state \in {"sleeping", "spawn_failed", "running"}
    THEN runner.attempt + 1 ELSE runner.attempt

\* C31: spawn_with_retry(command, 3) makes at most 4 attempts; it has slept
\* 100, 200, 400 ms, one delay after each transient failure that was not
\* the 4th, and never after another error; it sleeps only after a transient
\* error, returns a non-transient error at once, returns the 4th error
\* whatever it is, and returns the child on the first success.
C31_SpawnRetries ==
    /\ Attempts <= 4
    /\ runner.slept = SubSeq(<<100, 200, 400>>, 1, Len(runner.slept))
    /\ Len(runner.slept) = IF runner.state = "spawning" THEN Attempts ELSE Attempts - 1
    /\ runner.state = "sleeping" => Transient(runner.last_error) /\ Attempts < 4
    /\ runner.state = "spawn_failed" =>
          /\ runner.error \in SpawnErrors
          /\ ~Transient(runner.error) \/ Attempts = 4
    /\ (runner.state = "spawning" /\ Attempts > 0) => Transient(runner.last_error)
    /\ runner.state = "running" => runner.error = NoError

\* three errors that are transient by their code only, each followed by its
\* sleep, and a fourth transient error, which is returned
C31_Witness ==
    /\ runner.state = "spawn_failed"
    /\ runner.slept = <<100, 200, 400>>
    /\ runner.last_error = IoError("Uncategorized", 24)
    /\ runner.error = IoError("Uncategorized", 23)

\* C32: once the shutdown message has arrived while the runner reads or
\* waits, the runner invokes the activity callback for no further line and
\* does not return Ok.
C32_ShutdownPreempts ==
    [][(/\ runner.shutdown
        /\ \E l \in DOMAIN loops : loops[l].pc \in {"reading", "waiting"})
       => /\ Len(handlers') = Len(handlers)
          /\ \A l \in DOMAIN loops : loops'[l].pc # "tokens"]_vars

\* the fields the spec requires of a record of each type
Required(type) ==
    IF type \in {"read", "write"} THEN {"type", "path", "lines", "bytes"}
    ELSE IF type = "shell" THEN {"type", "command", "exit_code"}
    ELSE {"type", "message"}

\* a line that is a JSON object of a known type with its required fields
ValidLine(line) ==
    /\ line.text = "json"
    /\ "type" \in DOMAIN line.value
    /\ line.value.type \in {"read", "write", "shell", "error"}
    /\ Required(line.value.type) \subseteq DOMAIN line.value

\* the types of the valid lines among lines, in line order
RECURSIVE ValidTypes(_)
ValidTypes(lines) ==
    IF lines = <<>> THEN <<>>
    ELSE (IF ValidLine(Head(lines)) THEN <<Head(lines).value.type>> ELSE <<>>)
         \o ValidTypes(Tail(lines))

\* C33: the callback has been invoked once for each valid line read so
\* far, in line order, and for no other line; run_iteration has returned
\* Ok only with the exit status zero and the callback invoked for every
\* valid line the subprocess wrote.
C33_CallbackPerValidLine ==
    /\ [h \in DOMAIN handlers |-> handlers[h].kind.type] =
          ValidTypes(SubSeq(runner.lines, 1, Len(runner.lines) - Len(output)))
    /\ \A l \in DOMAIN loops :
          loops[l].pc = "tokens" =>
              /\ runner.exit_code = 0
              /\ Len(handlers) = Len(ValidTypes(runner.lines))

\* the total before call i of a parser with counters at their width
WideBefore(i) == IF i = 1 THEN U32(0) ELSE seen[i - 1].usage.total

\* C34: for every parse_activity call the total after the call is at least
\* the total before it, whatever byte counts the 32-bit counters are given;
\* hence every call after one that returned Rotate finds the total at or
\* above rotate_threshold.
C34_TotalNeverDecreases ==
    \A i \in 1..Len(seen) :
        /\ LeqU32(WideBefore(i), seen[i].usage.total)
        /\ \A j \in 1..i :
              seen[j].signal = SignalRotate =>
                  LeqU32(U32(parser.rotate_threshold), seen[i].usage.total)

\* a run-loop past its poll: it runs an iteration or writes a result
Working(l) == loops[l].pc \notin {"none", "poll", "done"}

\* C35: no two run-loops of the same session are past their poll at the
\* same time, running an iteration or writing the record.
C35_OneLoopPerSession ==
    \A k, l \in DOMAIN loops :
        (k # l /\ Working(k) /\ Working(l)) =>
            loops[k].session.id # loops[l].session.id

\* C36: when run_iteration has copied the usage back after the runner
\* returned Ok, the usage of the session is the usage at the start of the
\* iteration, zero here, plus the contribution of every activity the
\* subprocess emitted.
C36_UsageCountsEveryActivity ==
    \A l \in DOMAIN loops :
        loops[l].pc = "gutter_check" =>
            loops[l].session.token_usage =
                ParseAll(StreamParserNew(0, TokenUsageDefault, WarnThreshold,
                                         RotateThreshold),
                         Emitted).parser.token_usage

\* C37: no step lowers current_iteration in the registry record of the
\* session, whatever call interleaves with the run-loop.
C37_IterationNeverDecreases ==
    [][(Registered /\ Registered') =>
          sessions'[SessionId].current_iteration >= Record.current_iteration]_vars

\* C38: a session whose registry status is Complete has a PRD in which
\* every story is passed.
C38_CompleteMeansAllPassed ==
    (Registered /\ Record.status = Complete) =>
        /\ Record.prd.some
        /\ Unfinished(Record.prd.stories) = {}

\* what the activities acts add to the total: the bytes of a Read or
\* Write, 100 for a Shell
RECURSIVE Contribution(_)
Contribution(acts) ==
    IF acts = <<>> THEN 0
    ELSE (IF Head(acts).type = "shell" THEN 100 ELSE Head(acts).bytes)
         + Contribution(Tail(acts))

\* the total at the end of iteration k: what the iterations since the last
\* Rotate result have added
RECURSIVE Carried(_)
Carried(k) ==
    IF k = 0 THEN 0
    ELSE (IF Carried(k - 1) >= RotateThreshold THEN 0 ELSE Carried(k - 1))
         + Contribution(seen[k])

\* C39: no iteration with fewer than gutter_fail_count failures of a
\* command ends in Gutter, however many failures the iterations before it
\* saw; the total an iteration ends with is what the iterations since the
\* last Rotate result have added, and after a Rotate result the next
\* iteration starts from zero.
C39_GutterPerIterationTokensPerEpoch ==
    \A l \in DOMAIN loops :
        /\ loops[l].pc # "gutter"
        /\ loops[l].pc \in {"story_complete", "rotate"} =>
              loops[l].session.token_usage.total = Carried(Len(seen))
        /\ (loops[l].pc \in {"running", "iteration"} /\ Len(seen) > 0) =>
              loops[l].session.token_usage.total =
                  IF Carried(Len(seen)) >= RotateThreshold THEN 0
                  ELSE Carried(Len(seen))

\* two failures of the command in the first iteration, which ended
\* StoryComplete, and two more in the second: no Gutter, and the second
\* iteration ends with the total of both
C39_Witness ==
    /\ seen = <<<<ShellKind(1), ShellKind(1)>>, <<ShellKind(1), ShellKind(1)>>>>
    /\ \E l \in DOMAIN loops :
          /\ loops[l].pc = "story_complete"
          /\ loops[l].session.token_usage.total = 4 * ShellEstimate
          /\ loops[l].session.current_iteration = 1

\* C40: the health of the entry of a call agrees with the signal the call
\* returns: Rotate with Critical, Warn with Warning, no signal with Healthy.
C40_HealthAgreesWithSignal ==
    \A i \in 1..Len(seen) :
        /\ seen[i].signal = SignalRotate => seen[i].health = "Critical"
        /\ seen[i].signal = SignalWarn => seen[i].health = "Warning"
        /\ seen[i].signal = NoSignal => seen[i].health = "Healthy"

====
